---- MODULE Spec2Model ----
(***************************************************************************)
(* A model of the vulnerability store (src/core/database.py), of the      *)
(* threads that call it, of the CLI's batch-write coordinator             *)
(* (src/vanta_vuln_stats.py, main) and of the API client                   *)
(* (src/core/api_client.py).                                               *)
(*                                                                         *)
(* The store keeps one sqlite connection.  `conn` is what that connection  *)
(* sees (the database file plus the statements of its open transaction),   *)
(* `disk` is what has been committed.  A store call runs under             *)
(* `write_lock`; the read operations take no lock.                         *)
(***************************************************************************)
EXTENDS Integers, Sequences, FiniteSets, TLC

VARIABLES
    conn,        \* tables as seen through self.conn (includes uncommitted writes)
    disk,        \* tables as committed by the last self.conn.commit()
    write_lock,  \* self._write_lock: NoThread, or the thread holding it
    clock,       \* datetime.utcnow(): the last timestamp handed out
    call,        \* per thread: the frame of its store_vulnerabilities call
    read,        \* per reader: what its last read operation returned
    coord,       \* the frame of main()'s sync branch (batch write coordinator)
    client,      \* the API client and the frame of its get_vulnerabilities call
    run          \* the frame of a call of a stand-alone function (retry, filter, flatten)

vars == <<conn, disk, write_lock, clock, call, read, coord, client, run>>

---------------------------------------------------------------------------
(* Bounds of the model. *)

MaxCalls == 2      \* store calls in one behaviour of Spec and SpecRead
MaxBatch == 2      \* records in the list handed to one direct call
NumCallers == 1    \* threads calling the store directly
MaxReads == 2      \* read operations of one reader in SpecRead
MaxMorePages == 2  \* pages answered with hasNextPage = true in one sync
PageSize == 1      \* records on one page (at most page_size, 100 in the source)
Threshold == 2     \* flush threshold of the batch buffer (100 in the source)

(* Program constants. *)
max_workers == 4   \* ThreadPoolExecutor(max_workers=4)

---------------------------------------------------------------------------
(* JSON values (the payloads are whatever the API returned).  A mapping    *)
(* keeps its items in insertion order, as a Python dict does.              *)

JNull == [t |-> "null"]
JStr(s) == [t |-> "str", s |-> s]
JNum(n) == [t |-> "num", n |-> n]
JObj(kv) == [t |-> "obj", kv |-> kv]
JList(xs) == [t |-> "list", xs |-> xs]
Item(k, v) == [k |-> k, v |-> v]

\* key in d
HasKey(d, key) == \E i \in 1..Len(d.kv) : d.kv[i].k = key

\* d.get(key): None when the key is missing
DictGet(d, key) ==
    IF HasKey(d, key)
    THEN d.kv[CHOOSE i \in 1..Len(d.kv) : d.kv[i].k = key].v
    ELSE JNull

\* Python truth value of a JSON value
Truthy(v) ==
    CASE v.t = "null" -> FALSE
      [] v.t = "str"  -> v.s # ""
      [] v.t = "num"  -> v.n # 0
      [] v.t = "obj"  -> v.kv # <<>>
      [] v.t = "list" -> v.xs # <<>>

\* Position of a key in the lexicographic order of the keys that occur.
KeyRank(k) ==
    CASE k = ""                   -> 0
      [] k = "__root__"           -> 1
      [] k = "a"                  -> 2
      [] k = "a.b"                -> 3
      [] k = "a[0]"               -> 4
      [] k = "b"                  -> 5
      [] k = "deactivateMetadata" -> 6
      [] k = "deactivatedOnDate"  -> 7
      [] k = "id"                 -> 8
      [] k = "name"               -> 9
      [] k = "severity"           -> 10
      [] k = "status"             -> 11

RECURSIVE InsertItem(_, _)
InsertItem(it, s) ==
    IF s = <<>> THEN <<it>>
    ELSE IF KeyRank(it.k) <= KeyRank(Head(s).k) THEN <<it>> \o s
    ELSE <<Head(s)>> \o InsertItem(it, Tail(s))

RECURSIVE SortItems(_)
SortItems(kv) ==
    IF kv = <<>> THEN <<>> ELSE InsertItem(Head(kv), SortItems(Tail(kv)))

\* The value with the items of every mapping in key order (sort_keys=True).
RECURSIVE SortKeys(_)
SortKeys(v) ==
    CASE v.t = "obj" ->
           JObj(SortItems([i \in 1..Len(v.kv) |->
                              Item(v.kv[i].k, SortKeys(v.kv[i].v))]))
      [] v.t = "list" -> JList([i \in 1..Len(v.xs) |-> SortKeys(v.xs[i])])
      [] OTHER -> v

\* json.dumps(value, sort_keys=sort_keys): a text.  Two texts are equal
\* exactly when the values rendered are equal item by item, in order.
JsonDumpsKeepsOrder(value, sort_keys) == [json |-> value]
JsonDumps(value, sort_keys) ==
    [json |-> IF sort_keys THEN SortKeys(value) ELSE value]

\* json.loads(text)
JsonLoads(text) == text.json

normalize_for_storage(value) == JsonDumps(value, TRUE)

---------------------------------------------------------------------------
(* Flattening (data_elements). *)

IndexStr(i) == ToString(i)

RECURSIVE flatten_data(_, _)
RECURSIVE FlattenDictItems(_, _, _)
RECURSIVE FlattenListItems(_, _, _)

\* for key, value in data.items(): items.extend(flatten(value, new_key))
FlattenDictItems(kv, parent_key, i) ==
    IF i > Len(kv) THEN <<>>
    ELSE LET new_key == IF parent_key # "" THEN parent_key \o "." \o kv[i].k
                        ELSE kv[i].k
         IN flatten_data(kv[i].v, new_key) \o FlattenDictItems(kv, parent_key, i + 1)

\* for index, value in enumerate(data): items.extend(flatten(value, new_key))
FlattenListItems(xs, parent_key, i) ==
    IF i > Len(xs) THEN <<>>
    ELSE LET new_key == IF parent_key # ""
                        THEN parent_key \o "[" \o IndexStr(i - 1) \o "]"
                        ELSE "[" \o IndexStr(i - 1) \o "]"
         IN flatten_data(xs[i], new_key) \o FlattenListItems(xs, parent_key, i + 1)

flatten_data(data, parent_key) ==
    CASE data.t = "obj" ->
           (IF parent_key # "" THEN <<[path |-> parent_key, value |-> data]>>
            ELSE <<>>) \o FlattenDictItems(data.kv, parent_key, 1)
      [] data.t = "list" ->
           (IF parent_key # "" THEN <<[path |-> parent_key, value |-> data]>>
            ELSE <<>>) \o FlattenListItems(data.xs, parent_key, 1)
      [] OTHER -> <<[path |-> parent_key, value |-> data]>>

\* INSERT OR REPLACE INTO data_elements, one statement per element, in order
RECURSIVE InsertElements(_, _, _, _, _)
InsertElements(rows, record_type, record_id, elements, timestamp) ==
    IF elements = <<>> THEN rows
    ELSE LET e == Head(elements)
             row == [record_type |-> record_type, record_id |-> record_id,
                     element_path |-> e.path,
                     element_value |-> normalize_for_storage(e.value),
                     last_updated |-> timestamp]
             kept == {r \in rows : ~(/\ r.record_type = record_type
                                     /\ r.record_id = record_id
                                     /\ r.element_path = e.path)}
         IN InsertElements(kept \cup {row}, record_type, record_id,
                           Tail(elements), timestamp)

store_data_elements(rows, record_type, record_id, data, timestamp) ==
    LET deleted == {r \in rows : ~(/\ r.record_type = record_type
                                   /\ r.record_id = record_id)}
        elements == <<[path |-> "__root__", value |-> data]>> \o flatten_data(data, "")
    IN InsertElements(deleted, record_type, record_id, elements, timestamp)

---------------------------------------------------------------------------
(* Rows.  Of the vulnerabilities table's columns that are plain copies of   *)
(* a payload field (name, description, ..., scanSource) `name` stands for   *)
(* all: each is bound as vuln.get(<field>).                                 *)

NoThread == 0
NoRow == [t |-> "None"]           \* fetchone() found nothing
SqlNull == [t |-> "NULL"]
NoChange == "None"                \* change_type = None

EmptyTables ==
    [vulnerabilities |-> {}, vulnerability_remediations |-> {},
     data_elements |-> {},
     vulnerability_history |-> <<>>, sync_history |-> <<>>]

\* sqlite binds str, int and None; a list or dict parameter raises
\* ProgrammingError
Bindable(v) == v.t \in {"null", "str", "num"}

\* deactivate_metadata = json.dumps(dm) if dm else None
DeactivateMetadataColumn(vuln) ==
    IF Truthy(DictGet(vuln, "deactivateMetadata"))
    THEN JsonDumps(DictGet(vuln, "deactivateMetadata"), FALSE)
    ELSE SqlNull

VulnRow(vuln, current_time) ==
    [id |-> DictGet(vuln, "id"),
     name |-> DictGet(vuln, "name"),
     deactivate_metadata |-> DeactivateMetadataColumn(vuln),
     last_updated |-> current_time,
     raw_data |-> JsonDumps(vuln, FALSE)]

\* SELECT raw_data, deactivate_metadata FROM vulnerabilities WHERE id = ?
SelectById(c, vuln_id) == {r \in c.vulnerabilities : r.id = vuln_id}
FetchOne(rows) == IF rows = {} THEN NoRow ELSE CHOOSE r \in rows : TRUE

\* INSERT OR REPLACE INTO vulnerabilities (id is the primary key)
InsertOnly(table, row) == table \cup {row}
InsertOrReplace(table, row) == {r \in table : r.id # row.id} \cup {row}

ChangeTypeNeverDiscovered(existing, vuln) ==
    IF existing = NoRow THEN NoChange
    ELSE LET old_deactivated == existing.deactivate_metadata # SqlNull
             new_deactivated == DictGet(vuln, "deactivateMetadata") # JNull
         IN IF ~old_deactivated /\ new_deactivated THEN "remediated"
            ELSE IF old_deactivated /\ ~new_deactivated THEN "reactivated"
            ELSE IF JsonDumps(JsonLoads(existing.raw_data), TRUE) # JsonDumps(vuln, TRUE)
                 THEN "updated"
            ELSE NoChange

ChangeTypeUpdatedFirst(existing, vuln) ==
    IF existing = NoRow THEN "discovered"
    ELSE LET old_deactivated == existing.deactivate_metadata # SqlNull
             new_deactivated == DictGet(vuln, "deactivateMetadata") # JNull
         IN IF JsonDumps(JsonLoads(existing.raw_data), TRUE) # JsonDumps(vuln, TRUE)
            THEN "updated"
            ELSE IF ~old_deactivated /\ new_deactivated THEN "remediated"
            ELSE IF old_deactivated /\ ~new_deactivated THEN "reactivated"
            ELSE NoChange

ChangeTypeNoReactivated(existing, vuln) ==
    IF existing = NoRow THEN "discovered"
    ELSE LET old_deactivated == existing.deactivate_metadata # SqlNull
             new_deactivated == DictGet(vuln, "deactivateMetadata") # JNull
         IN IF ~old_deactivated /\ new_deactivated THEN "remediated"
            ELSE IF JsonDumps(JsonLoads(existing.raw_data), TRUE) # JsonDumps(vuln, TRUE)
                 THEN "updated"
            ELSE NoChange

\* "Determine change type"
ChangeType(existing, vuln) ==
    IF existing = NoRow THEN "discovered"
    ELSE LET old_data == JsonLoads(existing.raw_data)
             old_deactivated == existing.deactivate_metadata # SqlNull
             new_deactivated == DictGet(vuln, "deactivateMetadata") # JNull
         IN IF ~old_deactivated /\ new_deactivated THEN "remediated"
            ELSE IF old_deactivated /\ ~new_deactivated THEN "reactivated"
            ELSE IF JsonDumps(old_data, TRUE) # JsonDumps(vuln, TRUE) THEN "updated"
            ELSE NoChange

\* INSERT INTO vulnerability_history / sync_history: the row gets a fresh
\* AUTOINCREMENT id, so it is added after the rows the table holds
InsertRowOverLast(table, row) ==
    IF table = <<>> THEN <<row>> ELSE [table EXCEPT ![Len(table)] = row]
InsertRowFirst(table, row) == <<row>> \o table
InsertRow(table, row) == Append(table, row)

\* vuln.get('deactivateMetadata', {}).get('deactivatedOnDate') is evaluated
\* when is_deactivated; .get on a str or list raises AttributeError
HistoryRaises(vuln) ==
    LET dm == DictGet(vuln, "deactivateMetadata")
    IN /\ dm # JNull
       /\ \/ dm.t # "obj"
          \/ ~Bindable(DictGet(dm, "deactivatedOnDate"))

HistoryRow(vuln, change_type, current_time) ==
    LET dm == DictGet(vuln, "deactivateMetadata")
    IN [vuln_id |-> DictGet(vuln, "id"),
        name |-> DictGet(vuln, "name"),
        is_deactivated |-> dm # JNull,
        deactivation_date |-> IF dm # JNull THEN DictGet(dm, "deactivatedOnDate")
                              ELSE JNull,
        snapshot_date |-> current_time,
        change_type |-> change_type,
        raw_data |-> JsonDumps(vuln, FALSE)]

SyncRowCountingIds(f) ==
    [sync_date |-> f.current_time,
     vulnerabilities_count |-> Cardinality(f.incoming_ids),
     new_count |-> f.new_count,
     updated_count |-> f.updated_count,
     remediated_count |-> f.remediated_count]
SyncRow(f) ==
    [sync_date |-> f.current_time,
     vulnerabilities_count |-> Len(f.vulnerabilities),
     new_count |-> f.new_count,
     updated_count |-> f.updated_count,
     remediated_count |-> f.remediated_count]

\* if track_changes and change_type:
RecordsHistoryUntracked(track_changes, change_type) == change_type # NoChange
RecordsHistory(track_changes, change_type) ==
    track_changes /\ change_type # NoChange

\* One pass of "for vuln in vulnerabilities" on the connection's tables c.
\* Yields the tables afterwards, the change type, whether the pass raised,
\* the row found and the history rows appended.
ProcessVuln(c, vuln, track_changes, current_time) ==
    LET vuln_id == DictGet(vuln, "id")
        existing == FetchOne(SelectById(c, vuln_id))
        change_type == ChangeType(existing, vuln)
        upserted ==
            [c EXCEPT
               !.vulnerabilities = InsertOrReplace(@, VulnRow(vuln, current_time)),
               !.data_elements = store_data_elements(@, "vulnerability", vuln_id,
                                                     vuln, current_time)]
        row == HistoryRow(vuln, change_type, current_time)
        out(tables, ct, raised, ex, events) ==
            [conn |-> tables, change_type |-> ct, raised |-> raised,
             existing |-> ex, events |-> events]
    IN IF ~Truthy(vuln_id) THEN out(c, "skipped", FALSE, NoRow, <<>>)
       ELSE IF ~Bindable(vuln_id) THEN out(c, "skipped", TRUE, NoRow, <<>>)
       ELSE IF ~Bindable(DictGet(vuln, "name"))
            THEN out(c, change_type, TRUE, existing, <<>>)
       ELSE IF ~RecordsHistory(track_changes, change_type)
            THEN out(upserted, change_type, FALSE, existing, <<>>)
       ELSE IF HistoryRaises(vuln)
            THEN out(upserted, change_type, TRUE, existing, <<>>)
       ELSE out([upserted EXCEPT !.vulnerability_history = InsertRow(@, row)],
                change_type, FALSE, existing, <<row>>)

---------------------------------------------------------------------------
(* store_vulnerabilities, as run by thread t. *)

IdleFrame == [pc |-> "idle"]
NoClient == [pc |-> "off"]
NoRun == [pc |-> "off"]

\* The call that held the lock last before now (its frame is kept by its
\* thread until that thread calls again).
PreviousCall ==
    IF \E u \in DOMAIN call :
          call[u].pc \in {"loop", "returned", "raised"} /\ call[u].current_time = clock
    THEN LET u == CHOOSE u \in DOMAIN call :
                     /\ call[u].pc \in {"loop", "returned", "raised"}
                     /\ call[u].current_time = clock
         IN [pc |-> call[u].pc, vulnerabilities |-> call[u].vulnerabilities,
             track_changes |-> call[u].track_changes]
    ELSE [pc |-> "idle"]
\* with self._write_lock: a threading.Lock, entered only while no thread holds it
AcquirableAlways(lock) == TRUE
Acquirable(lock) == lock = NoThread

\* with self._write_lock: ...; current_time = utcnow(); counters = 0;
\* existing_ids, incoming_ids
StoreEnter(t, vulnerabilities, track_changes) ==
    /\ Acquirable(write_lock)
    /\ call[t].pc # "loop"
    /\ write_lock' = t
    /\ clock' = clock + 1
    /\ call' = [call EXCEPT ![t] =
                  [pc |-> "loop", vulnerabilities |-> vulnerabilities,
                   track_changes |-> track_changes, i |-> 1,
                   current_time |-> clock + 1,
                   new_count |-> 0, updated_count |-> 0, remediated_count |-> 0,
                   existing_ids |-> {r.id : r \in conn.vulnerabilities},
                   incoming_ids |->
                       {DictGet(vulnerabilities[k], "id") :
                          k \in {k \in 1..Len(vulnerabilities) :
                                   Truthy(DictGet(vulnerabilities[k], "id"))}},
                   previous |-> PreviousCall,
                   log |-> <<>>]]
    /\ UNCHANGED <<conn, disk, read, coord, client, run>>

\* An exception leaves "with self._write_lock": there is no except clause, no
\* rollback and no commit, so the connection keeps the writes made so far as
\* pending and the database file keeps what was committed.
ExceptionExitRecreates(committed, pending) ==
    [conn |-> EmptyTables, disk |-> EmptyTables]
ExceptionExit(committed, pending) == [conn |-> pending, disk |-> committed]

\* one pass of the loop over vulnerabilities; an exception leaves the with
\* block (the lock is released) without commit and without rollback
StoreRecord(t) ==
    /\ call[t].pc = "loop"
    /\ call[t].i <= Len(call[t].vulnerabilities)
    /\ LET f == call[t]
           vuln == f.vulnerabilities[f.i]
           r == ProcessVuln(conn, vuln, f.track_changes, f.current_time)
           new_count == f.new_count + (IF r.change_type = "discovered" THEN 1 ELSE 0)
           remediated_count ==
               f.remediated_count + (IF r.change_type = "remediated" THEN 1 ELSE 0)
           updated_count ==
               f.updated_count + (IF r.change_type = "updated" THEN 1 ELSE 0)
           counted ==
               [f EXCEPT
                  !.new_count = new_count,
                  !.remediated_count = remediated_count,
                  !.updated_count = updated_count,
                  !.log = Append(@, [vuln |-> vuln, existing |-> r.existing,
                                     change_type |-> r.change_type,
                                     raised |-> r.raised,
                                     events |-> r.events,
                                     new_count |-> new_count,
                                     updated_count |-> updated_count,
                                     remediated_count |-> remediated_count])]
       IN IF r.raised
          THEN /\ conn' = ExceptionExit(disk, r.conn).conn
               /\ disk' = ExceptionExit(disk, r.conn).disk
               /\ call' = [call EXCEPT ![t] = [counted EXCEPT !.pc = "raised"]]
               /\ write_lock' = NoThread
          ELSE /\ conn' = r.conn
               /\ call' = [call EXCEPT ![t] = [counted EXCEPT !.i = @ + 1]]
               /\ UNCHANGED <<disk, write_lock>>
    /\ UNCHANGED <<clock, read, coord, client, run>>

\* "Record sync operation", self.conn.commit(), return the counts
StoreReturn(t) ==
    /\ call[t].pc = "loop"
    /\ call[t].i > Len(call[t].vulnerabilities)
    /\ LET f == call[t]
           done == [conn EXCEPT !.sync_history = InsertRow(@, SyncRow(f))]
       IN /\ conn' = done
          /\ disk' = done
          /\ call' = [call EXCEPT ![t] =
                        [f EXCEPT !.pc = "returned"] @@
                        [ret |-> [new |-> f.new_count, updated |-> f.updated_count,
                                  remediated |-> f.remediated_count,
                                  total |-> Len(f.vulnerabilities)]]]
    /\ write_lock' = NoThread
    /\ UNCHANGED <<clock, read, coord, client, run>>

---------------------------------------------------------------------------
(* The payloads the model draws from. *)

\* the payloads by name
Payload(name) ==
    LET DeactivatedOn == JObj(<<Item("deactivatedOnDate", JStr("d1"))>>)
    IN CASE name = "A1" -> JObj(<<Item("id", JStr("a")), Item("name", JStr("n1"))>>)
         [] name = "A1swapped" -> JObj(<<Item("name", JStr("n1")), Item("id", JStr("a"))>>)
         [] name = "A2" -> JObj(<<Item("id", JStr("a")), Item("name", JStr("n2"))>>)
         [] name = "A1deact" ->
              JObj(<<Item("id", JStr("a")), Item("name", JStr("n1")),
                     Item("deactivateMetadata", DeactivatedOn)>>)
         [] name = "A1empty" ->
              JObj(<<Item("id", JStr("a")), Item("name", JStr("n1")),
                     Item("deactivateMetadata", JObj(<<>>))>>)
         [] name = "B1" -> JObj(<<Item("id", JStr("b")), Item("name", JStr("n1"))>>)
         [] name = "NoId" -> JObj(<<Item("name", JStr("n1"))>>)
         [] name = "EmptyId" -> JObj(<<Item("id", JStr("")), Item("name", JStr("n1"))>>)
         [] name = "BlistName" ->
              JObj(<<Item("id", JStr("b")), Item("name", JList(<<JStr("x")>>))>>)
         [] name = "BstrDeact" ->
              JObj(<<Item("id", JStr("b")), Item("name", JStr("n1")),
                     Item("deactivateMetadata", JStr("x"))>>)

Vulns ==
    {Payload(name) : name \in {"A1", "A1swapped", "A2", "A1deact", "A1empty", "B1",
                               "NoId", "EmptyId", "BlistName", "BstrDeact"}}

SeqsUpTo(S, n) == UNION {[1..k -> S] : k \in 0..n}

Callers == 1..NumCallers
Readers == {"r1"}
\* a sync submits at most one job per page and one for the remainder
MaxJobs == MaxMorePages + 3
Threads == 1..(IF NumCallers > MaxJobs THEN NumCallers ELSE MaxJobs)

---------------------------------------------------------------------------

Init ==
    /\ conn = EmptyTables
    /\ disk = EmptyTables
    /\ write_lock = NoThread
    /\ clock = 0
    /\ call = [t \in Threads |-> IdleFrame]
    /\ read = [r \in Readers |-> [op |-> "none", n |-> 0]]
    /\ coord = [pc |-> "off"]
    /\ client = NoClient
    /\ run = NoRun

Invoke(t) ==
    /\ clock < MaxCalls
    /\ \E vulnerabilities \in SeqsUpTo(Vulns, MaxBatch), track_changes \in BOOLEAN :
          StoreEnter(t, vulnerabilities, track_changes)

Next ==
    \E t \in Callers :
       \/ Invoke(t)
       \/ StoreRecord(t)
       \/ StoreReturn(t)

Spec == Init /\ [][Next]_vars

---------------------------------------------------------------------------
(* What the claims speak about. *)

Frames == {call[t] : t \in DOMAIN call}
Started == {f \in Frames : f.pc # "idle"}

\* the counters' increase over the i-th pass of the loop of frame f
Delta(f, i) ==
    LET before == IF i = 1 THEN [new_count |-> 0, updated_count |-> 0,
                                 remediated_count |-> 0]
                  ELSE f.log[i - 1]
    IN [new |-> f.log[i].new_count - before.new_count,
        updated |-> f.log[i].updated_count - before.updated_count,
        remediated |-> f.log[i].remediated_count - before.remediated_count]

NoDelta == [new |-> 0, updated |-> 0, remediated |-> 0]

\* all history rows the call of frame f appended, in order
RECURSIVE EventsUpTo(_, _)
EventsUpTo(f, n) == IF n = 0 THEN <<>> ELSE EventsUpTo(f, n - 1) \o f.log[n].events
EventsOf(f) == EventsUpTo(f, Len(f.log))

OneEvent(events, vuln, change_type) ==
    /\ Len(events) = 1
    /\ events[1].change_type = change_type
    /\ events[1].vuln_id = DictGet(vuln, "id")

\* a payload as the data model describes it: a string name, and a
\* deactivateMetadata that is absent, null or a mapping of scalars
WellFormed(vuln) ==
    /\ Bindable(DictGet(vuln, "name"))
    /\ LET dm == DictGet(vuln, "deactivateMetadata")
       IN dm = JNull \/ (dm.t = "obj" /\ \A k \in 1..Len(dm.kv) : Bindable(dm.kv[k].v))

\* C1: calling StoreVulnerabilities(R, trackChanges=true) twice in succession
\* with the identical R yields updated == 0 on the second call, and the second
\* call appends no ChangeEvent row.
C1_IdempotentResync ==
    \A f \in Started :
       (/\ f.pc = "returned"
        /\ f.track_changes
        /\ f.previous = [pc |-> "returned", vulnerabilities |-> f.vulnerabilities,
                         track_changes |-> TRUE])
       => (f.ret.updated = 0 /\ EventsOf(f) = <<>>)

\* C2: StoreVulnerabilities([r]) for a record r with a non-empty id that has no
\* current-state row returns new=1, updated=0, remediated=0, total=1 and
\* appends exactly one ChangeEvent, of type discovered (the call raises only
\* for a payload that is not well formed).
C2_NewRecord ==
    \A f \in Started :
       (/\ f.pc \in {"returned", "raised"}
        /\ f.track_changes
        /\ Len(f.vulnerabilities) = 1
        /\ Truthy(DictGet(f.vulnerabilities[1], "id"))
        /\ DictGet(f.vulnerabilities[1], "id") \notin f.existing_ids)
       => IF f.pc = "raised" THEN ~WellFormed(f.vulnerabilities[1])
          ELSE /\ f.ret = [new |-> 1, updated |-> 0, remediated |-> 0, total |-> 1]
               /\ OneEvent(EventsOf(f), f.vulnerabilities[1], "discovered")

C2_Witness ==
    \E f \in Started :
       /\ f.pc = "returned"
       /\ f.track_changes
       /\ Len(f.vulnerabilities) = 1
       /\ Truthy(DictGet(f.vulnerabilities[1], "id"))
       /\ DictGet(f.vulnerabilities[1], "id") \notin f.existing_ids
       /\ f.existing_ids # {}
       /\ f.ret.new = 1

\* C3: when the stored row of an id has no deactivateMetadata and the incoming
\* record has one, the record is classified remediated: remediated goes up by
\* one, updated and new do not (also when other fields changed), and exactly
\* one remediated ChangeEvent is appended (when changes are tracked and the
\* pass completes).
C3_Remediated ==
    \A f \in Started : \A i \in 1..Len(f.log) :
       LET e == f.log[i] IN
       (/\ e.change_type # "skipped"
        /\ e.existing # NoRow
        /\ e.existing.deactivate_metadata = SqlNull
        /\ DictGet(e.vuln, "deactivateMetadata") # JNull)
       => /\ e.change_type = "remediated"
          /\ Delta(f, i) = [new |-> 0, updated |-> 0, remediated |-> 1]
          /\ (f.track_changes /\ ~e.raised) => OneEvent(e.events, e.vuln, "remediated")
          /\ ~f.track_changes => e.events = <<>>

C3_Witness ==
    \E f \in Started : \E i \in 1..Len(f.log) :
       LET e == f.log[i] IN
       /\ e.change_type = "remediated"
       /\ e.existing # NoRow
       /\ e.existing.deactivate_metadata = SqlNull
       /\ DictGet(e.vuln, "name") # e.existing.name
       /\ OneEvent(e.events, e.vuln, "remediated")
       /\ f.pc = "returned"
       /\ f.ret.remediated = 1 /\ f.ret.updated = 0

\* C4: when the stored row of an id has deactivateMetadata and the incoming
\* record has none, exactly one reactivated ChangeEvent is appended (when
\* changes are tracked) and none of new, updated, remediated is incremented.
C4_Reactivated ==
    \A f \in Started : \A i \in 1..Len(f.log) :
       LET e == f.log[i] IN
       (/\ e.change_type # "skipped"
        /\ e.existing # NoRow
        /\ e.existing.deactivate_metadata # SqlNull
        /\ DictGet(e.vuln, "deactivateMetadata") = JNull)
       => /\ e.change_type = "reactivated"
          /\ Delta(f, i) = NoDelta
          /\ (f.track_changes /\ ~e.raised) => OneEvent(e.events, e.vuln, "reactivated")
          /\ ~f.track_changes => e.events = <<>>

C4_Witness ==
    \E f \in Started : \E i \in 1..Len(f.log) :
       LET e == f.log[i] IN
       /\ e.existing # NoRow
       /\ e.existing.deactivate_metadata # SqlNull
       /\ DictGet(e.vuln, "deactivateMetadata") = JNull
       /\ OneEvent(e.events, e.vuln, "reactivated")
       /\ f.pc = "returned"
       /\ f.ret = [new |-> 0, updated |-> 0, remediated |-> 0, total |-> 1]

CommittedTimes == {disk.sync_history[k].sync_date : k \in 1..Len(disk.sync_history)}
C6_AtomicUnit ==
    /\ \A r \in disk.vulnerabilities : r.last_updated \in CommittedTimes
    /\ \A r \in disk.data_elements : r.last_updated \in CommittedTimes
    /\ \A k \in 1..Len(disk.vulnerability_history) :
          disk.vulnerability_history[k].snapshot_date \in CommittedTimes

\* C9: the current-state table holds exactly one row for every id that was
\* ever stored: no two rows share an id, and no step removes the row of an id
\* (neither as the connection sees the table nor as committed).
UniqueIds(table) == \A r1, r2 \in table : r1.id = r2.id => r1 = r2
RowsKept(before, after) == \A r \in before : \E r2 \in after : r2.id = r.id
C9_OneRowPerId ==
    /\ [](UniqueIds(conn.vulnerabilities) /\ UniqueIds(disk.vulnerabilities))
    /\ [][/\ RowsKept(conn.vulnerabilities, conn'.vulnerabilities)
          /\ RowsKept(disk.vulnerabilities, disk'.vulnerabilities)]_vars

C9_Witness ==
    \E f \in Started :
       /\ f.pc = "returned"
       /\ \E id \in f.existing_ids \ f.incoming_ids :
             Cardinality({r \in disk.vulnerabilities : r.id = id}) = 1
       /\ \E id \in f.existing_ids \cap f.incoming_ids :
             Cardinality({r \in disk.vulnerabilities : r.id = id}) = 1

---------------------------------------------------------------------------
(* The read operations.  None of them takes self._write_lock; each runs its *)
(* SELECT on self.conn.                                                     *)

MaxOf(S) == CHOOSE x \in S : \A y \in S : y <= x

\* [json.loads(row['raw_data']) for row in rows]
AllVulnerabilities(tables) == {JsonLoads(r.raw_data) : r \in tables.vulnerabilities}

\* SELECT MAX(last_updated): None for an empty table
LastUpdateTime(tables) ==
    IF tables.vulnerabilities = {} THEN 0
    ELSE MaxOf({r.last_updated : r \in tables.vulnerabilities})

get_all_vulnerabilities(rd) ==
    /\ read[rd].n < MaxReads
    /\ read' = [read EXCEPT ![rd] =
                  [op |-> "get_all_vulnerabilities",
                   result |-> AllVulnerabilities(conn), n |-> read[rd].n + 1]]
    /\ UNCHANGED <<conn, disk, write_lock, clock, call, coord, client, run>>

get_last_update_time(rd) ==
    /\ read[rd].n < MaxReads
    /\ read' = [read EXCEPT ![rd] =
                  [op |-> "get_last_update_time",
                   result |-> LastUpdateTime(conn), n |-> read[rd].n + 1]]
    /\ UNCHANGED <<conn, disk, write_lock, clock, call, coord, client, run>>

ReadVulns == {Payload("A1"), Payload("A2"), Payload("B1"), Payload("BlistName")}

InvokeWhileRead(t) ==
    /\ clock < MaxCalls
    /\ \E vulnerabilities \in SeqsUpTo(ReadVulns, MaxBatch) :
          StoreEnter(t, vulnerabilities, TRUE)

NextRead ==
    \/ \E t \in Callers :
          \/ InvokeWhileRead(t)
          \/ StoreRecord(t)
          \/ StoreReturn(t)
    \/ \E rd \in Readers :
          \/ get_all_vulnerabilities(rd)
          \/ get_last_update_time(rd)

SpecRead == Init /\ [][NextRead]_vars

\* C8: a read operation never runs while a store call holds the write lock,
\* so it never returns what a batch that is still in flight has written and
\* not yet committed.
C8_ReadsExcludeWriter ==
    [][\A rd \in Readers :
          read'[rd] # read[rd]
             => /\ write_lock = NoThread
                /\ (write_lock # NoThread /\ read'[rd].op = "get_all_vulnerabilities")
                      => read'[rd].result = AllVulnerabilities(disk)
                /\ (write_lock # NoThread /\ read'[rd].op = "get_last_update_time")
                      => read'[rd].result = LastUpdateTime(disk)]_vars

\* C11: ChangeEvent and SyncRun rows are write-once: no step of a store or a
\* read operation changes or removes a row appended earlier, so both logs
\* only grow (as the connection sees them and as committed).
IsPrefix(s, t) == Len(s) <= Len(t) /\ SubSeq(t, 1, Len(s)) = s
C11_WriteOnce ==
    [][/\ IsPrefix(conn.vulnerability_history, conn'.vulnerability_history)
       /\ IsPrefix(conn.sync_history, conn'.sync_history)
       /\ IsPrefix(disk.vulnerability_history, disk'.vulnerability_history)
       /\ IsPrefix(disk.sync_history, disk'.sync_history)]_vars

C11_Witness ==
    /\ Len(disk.sync_history) = 2
    /\ Len(disk.vulnerability_history) >= 2
    /\ disk.vulnerability_history[1].snapshot_date = disk.sync_history[1].sync_date
    /\ \E rd \in Readers : read[rd].n > 0

---------------------------------------------------------------------------
(* The sync branch of main(): two fetches feed batch_callback, which       *)
(* buffers the records and submits write_batch jobs to the executor; the    *)
(* remainder is submitted after the fetches, the executor is shut down      *)
(* (joined) and the jobs' results are summed.  Job j is run by the pool     *)
(* thread j: call[j] is the frame of its db.store_vulnerabilities call.     *)

SyncVulns == {Payload("A1"), Payload("A2"), Payload("B1"), Payload("BlistName")}

SyncStart ==
    [pc |-> "fetch_active", batch_buffer |-> <<>>, futures |-> <<>>,
     total_written |-> 0, vulnerabilities |-> <<>>, more_pages |-> 0,
     total_stats |-> [new |-> 0, updated |-> 0, remediated |-> 0, total |-> 0]]

InitSync ==
    /\ conn = EmptyTables
    /\ disk = EmptyTables
    /\ write_lock = NoThread
    /\ clock = 0
    /\ call = [t \in Threads |-> IdleFrame]
    /\ read = [r \in Readers |-> [op |-> "none", n |-> 0]]
    /\ coord = SyncStart
    /\ client = NoClient
    /\ run = NoRun

\* batch_callback(vulnerabilities_batch), under batch_lock
batch_callback_keeps_buffer(c, vulnerabilities_batch) ==
    LET extended == c.batch_buffer \o vulnerabilities_batch
    IN IF Len(extended) >= Threshold
       THEN [c EXCEPT
               !.batch_buffer = extended,
               !.futures = Append(@, SubSeq(extended, 1, Threshold)),
               !.total_written = @ + Threshold]
       ELSE [c EXCEPT !.batch_buffer = extended]
RECURSIVE batch_callback_drains(_, _)
batch_callback_drains(c, vulnerabilities_batch) ==
    LET extended == c.batch_buffer \o vulnerabilities_batch
    IN IF Len(extended) >= Threshold
       THEN batch_callback_drains(
               [c EXCEPT
                  !.batch_buffer = SubSeq(extended, Threshold + 1, Len(extended)),
                  !.futures = Append(@, SubSeq(extended, 1, Threshold)),
                  !.total_written = @ + Threshold], <<>>)
       ELSE [c EXCEPT !.batch_buffer = extended]
batch_callback_above(c, vulnerabilities_batch) ==
    LET extended == c.batch_buffer \o vulnerabilities_batch
    IN IF Len(extended) > Threshold
       THEN [c EXCEPT
               !.batch_buffer = SubSeq(extended, Threshold + 1, Len(extended)),
               !.futures = Append(@, SubSeq(extended, 1, Threshold)),
               !.total_written = @ + Threshold]
       ELSE [c EXCEPT !.batch_buffer = extended]
batch_callback(c, vulnerabilities_batch) ==
    LET extended == c.batch_buffer \o vulnerabilities_batch
    IN IF Len(extended) >= Threshold
       THEN [c EXCEPT
               !.batch_buffer = SubSeq(extended, Threshold + 1, Len(extended)),
               !.futures = Append(@, SubSeq(extended, 1, Threshold)),
               !.total_written = @ + Threshold]
       ELSE [c EXCEPT !.batch_buffer = extended]

\* One turn of get_vulnerabilities' loop that got a page: extend the result
\* list, call batch_callback for a non-empty page, go on while hasNextPage.
FetchPage(vulnerabilities_list, has_next_page) ==
    /\ coord.pc \in {"fetch_active", "fetch_deactivated"}
    /\ has_next_page => coord.more_pages < MaxMorePages
    /\ LET listed == [coord EXCEPT !.vulnerabilities = @ \o vulnerabilities_list]
           called == IF vulnerabilities_list # <<>>
                     THEN batch_callback(listed, vulnerabilities_list)
                     ELSE listed
       IN coord' =
            IF has_next_page THEN [called EXCEPT !.more_pages = @ + 1]
            ELSE [called EXCEPT
                    !.pc = IF coord.pc = "fetch_active" THEN "fetch_deactivated"
                           ELSE "drain"]
    /\ UNCHANGED <<conn, disk, write_lock, clock, call, read, client, run>>

\* "Write any remaining vulnerabilities in the buffer"
SubmitRemainder ==
    /\ coord.pc = "drain"
    /\ coord' = [coord EXCEPT
                   !.pc = "shutdown",
                   !.futures = IF coord.batch_buffer # <<>>
                               THEN Append(@, coord.batch_buffer) ELSE @]
    /\ UNCHANGED <<conn, disk, write_lock, clock, call, read, client, run>>

\* A pool thread takes job j off the executor's queue and calls
\* write_batch(batch).  The queue is first in first out and at most
\* max_workers jobs are off the queue and unfinished.
RunJob(j) ==
    /\ j \in 1..Len(coord.futures)
    /\ call[j].pc = "idle"
    /\ Cardinality({k \in 1..(j - 1) : call[k].pc \in {"idle", "loop"}}) < max_workers
    /\ StoreEnter(j, coord.futures[j], TRUE)

JobFinished(j) == call[j].pc \in {"returned", "raised"}

\* for future in futures: batch_stats = future.result(); total_stats += ...
RECURSIVE SumResults(_, _)
SumResults(n, field) ==
    IF n = 0 THEN 0 ELSE SumResults(n - 1, field) + call[n].ret[field]

RECURSIVE SumReturned(_, _)
SumReturned(n, field) ==
    IF n = 0 THEN 0
    ELSE SumReturned(n - 1, field)
         + (IF call[n].pc = "returned" THEN call[n].ret[field] ELSE 0)
SummaryOfReturned ==
    [coord EXCEPT
       !.pc = "summary",
       !.total_stats = [new |-> SumReturned(Len(coord.futures), "new"),
                        updated |-> SumReturned(Len(coord.futures), "updated"),
                        remediated |-> SumReturned(Len(coord.futures), "remediated"),
                        total |-> SumReturned(Len(coord.futures), "total")]]
AggregateWithoutJoin ==
    /\ coord.pc = "shutdown"
    /\ coord' = SummaryOfReturned
    /\ UNCHANGED <<conn, disk, write_lock, clock, call, read, client, run>>
AggregateSwallowingErrors ==
    /\ coord.pc = "shutdown"
    /\ \A j \in 1..Len(coord.futures) : JobFinished(j)
    /\ coord' = SummaryOfReturned
    /\ UNCHANGED <<conn, disk, write_lock, clock, call, read, client, run>>

\* executor.shutdown(wait=True), then the loop over futures: result() of a
\* failed job re-raises its exception, which ends main() in sys.exit(1)
JoinAndAggregate ==
    /\ coord.pc = "shutdown"
    /\ \A j \in 1..Len(coord.futures) : JobFinished(j)
    /\ coord' =
         IF \E j \in 1..Len(coord.futures) : call[j].pc = "raised"
         THEN [coord EXCEPT !.pc = "error"]
         ELSE [coord EXCEPT
                 !.pc = "summary",
                 !.total_stats =
                     [new |-> SumResults(Len(coord.futures), "new"),
                      updated |-> SumResults(Len(coord.futures), "updated"),
                      remediated |-> SumResults(Len(coord.futures), "remediated"),
                      total |-> SumResults(Len(coord.futures), "total")]]
    /\ UNCHANGED <<conn, disk, write_lock, clock, call, read, client, run>>

NextSync ==
    \/ \E vulnerabilities_list \in SeqsUpTo(SyncVulns, PageSize), has_next_page \in BOOLEAN :
          FetchPage(vulnerabilities_list, has_next_page)
    \/ SubmitRemainder
    \/ \E j \in Threads :
          \/ RunJob(j)
          \/ StoreRecord(j)
          \/ StoreReturn(j)
    \/ JoinAndAggregate

SpecSync == InitSync /\ [][NextSync]_vars

---------------------------------------------------------------------------
(* Claims about a sync. *)

SyncJobs == 1..Len(coord.futures)
Joined == coord.pc \in {"summary", "error"}
StoredIds(tables) == {r.id : r \in tables.vulnerabilities}

\* the passes of returned jobs that counted id as new
CountedNew(id) ==
    {<<j, i>> \in SyncJobs \X (1..Threshold) :
        /\ call[j].pc = "returned"
        /\ i <= Len(call[j].log)
        /\ call[j].log[i].change_type = "discovered"
        /\ DictGet(call[j].log[i].vuln, "id") = id}

DiscoveredEvents(tables, id) ==
    {k \in 1..Len(tables.vulnerability_history) :
        /\ tables.vulnerability_history[k].vuln_id = id
        /\ tables.vulnerability_history[k].change_type = "discovered"}

RECURSIVE SumNewReturned(_)
SumNewReturned(n) ==
    IF n = 0 THEN 0
    ELSE SumNewReturned(n - 1) + (IF call[n].pc = "returned" THEN call[n].ret.new ELSE 0)

\* C7: for every interleaving of the pool's StoreVulnerabilities jobs, once
\* all jobs are joined every id that was absent before the sync (the store
\* starts empty) and is stored has been counted as new by exactly one job,
\* has exactly one discovered ChangeEvent, and the jobs' new counts sum to the
\* number of distinct ids stored.
C7_NoLostOrDoubleCount ==
    Joined =>
       /\ \A id \in StoredIds(disk) :
             /\ Cardinality(CountedNew(id)) = 1
             /\ Cardinality(DiscoveredEvents(disk, id)) = 1
       /\ SumNewReturned(Len(coord.futures)) = Cardinality(StoredIds(disk))

\* the record with this id that the fetcher saw last
LastSeen(id) ==
    LET seen == {k \in 1..Len(coord.vulnerabilities) :
                    DictGet(coord.vulnerabilities[k], "id") = id}
    IN coord.vulnerabilities[MaxOf(seen)]

FetchedIds ==
    {DictGet(coord.vulnerabilities[k], "id") :
       k \in {k \in 1..Len(coord.vulnerabilities) :
                Truthy(DictGet(coord.vulnerabilities[k], "id"))}}

\* C10: after a sync whose jobs have all been joined, the payload stored for
\* each id is that of the record with that id the fetcher saw most recently,
\* whatever the order in which the jobs acquired the write lock.
C10_LatestPayloadStored ==
    coord.pc = "summary" =>
       \A id \in FetchedIds :
          \E r \in conn.vulnerabilities :
             r.id = id /\ JsonLoads(r.raw_data) = LastSeen(id)

\* C12: N records fed through the batch callback in pages of at most
\* Threshold records (one at a time included) end as N div Threshold jobs of
\* exactly Threshold records plus, when N mod Threshold > 0, one final job of
\* N mod Threshold records; the jobs taken in order are the records fed, each
\* in exactly one job; and the aggregated total is N.
RECURSIVE ConcatJobs(_)
ConcatJobs(n) == IF n = 0 THEN <<>> ELSE ConcatJobs(n - 1) \o coord.futures[n]
C12_BatchBoundary ==
    coord.pc \in {"shutdown", "summary", "error"} =>
       LET N == Len(coord.vulnerabilities)
           full == N \div Threshold
           rest == N % Threshold
       IN /\ Len(coord.futures) = full + (IF rest > 0 THEN 1 ELSE 0)
          /\ \A j \in 1..full : Len(coord.futures[j]) = Threshold
          /\ rest > 0 => Len(coord.futures[full + 1]) = rest
          /\ ConcatJobs(Len(coord.futures)) = coord.vulnerabilities
          /\ coord.pc = "summary" => coord.total_stats.total = N

C12_Witness ==
    /\ coord.pc = "summary"
    /\ Len(coord.vulnerabilities) = Threshold + 1
    /\ Len(coord.futures) = 2
    /\ Len(coord.futures[1]) = Threshold
    /\ Len(coord.futures[2]) = 1
    /\ coord.total_stats.total = Threshold + 1

\* C13: the coordinator reads the jobs' results and computes the aggregate
\* only after every submitted job has completed, and the aggregate it reports
\* is the sum of the counts returned by all submitted jobs.
C13_AggregateAfterJoin ==
    /\ [][coord'.pc # coord.pc /\ coord'.pc \in {"summary", "error"}
             => \A j \in SyncJobs : JobFinished(j)]_vars
    /\ [](coord.pc = "summary" =>
             /\ \A j \in SyncJobs : call[j].pc = "returned"
             /\ \A field \in {"new", "updated", "remediated", "total"} :
                   coord.total_stats[field] = SumReturned(Len(coord.futures), field))

C13_Witness ==
    /\ coord.pc = "summary"
    /\ Len(coord.futures) >= 2
    /\ coord.total_stats.new >= 1
    /\ coord.total_stats.updated >= 1
    /\ coord.total_stats.total = Len(coord.vulnerabilities)

\* C14: if any submitted store job fails, the sync ends in the error raised to
\* the caller, once all jobs are joined and also when every other job
\* succeeded; a summary is reported only when no job failed.
SomeJobFailed == \E j \in SyncJobs : call[j].pc = "raised"
C14_JobErrorSurfaces ==
    /\ [](coord.pc = "summary" => ~SomeJobFailed)
    /\ [](coord.pc = "error" => SomeJobFailed /\ \A j \in SyncJobs : JobFinished(j))
    /\ [][coord' # coord /\ coord.pc = "shutdown" /\ SomeJobFailed
             => coord'.pc = "error"]_vars

C14_Witness ==
    /\ coord.pc = "error"
    /\ \E j \in SyncJobs : call[j].pc = "raised"
    /\ \E j \in SyncJobs : call[j].pc = "returned" /\ call[j].ret.new >= 1

\* C15: a failed batch write does not undo batches committed earlier: the step
\* in which a job fails leaves the committed store as it was, and from then
\* on every committed ChangeEvent and SyncRun row stays as it is and every
\* committed id keeps its current-state row.
JobFails == \E t \in Threads : call[t].pc = "loop" /\ call'[t].pc = "raised"
C15_FailureKeepsCommitted ==
    [][/\ JobFails =>
            /\ disk' = disk
            /\ IsPrefix(disk.vulnerability_history, conn'.vulnerability_history)
            /\ IsPrefix(disk.sync_history, conn'.sync_history)
            /\ RowsKept(disk.vulnerabilities, conn'.vulnerabilities)
       /\ SomeJobFailed =>
            /\ IsPrefix(disk.vulnerability_history, disk'.vulnerability_history)
            /\ IsPrefix(disk.sync_history, disk'.sync_history)
            /\ RowsKept(disk.vulnerabilities, disk'.vulnerabilities)]_vars

C15_Witness ==
    /\ \E j \in SyncJobs : call[j].pc = "raised" /\ call[j].previous.pc = "returned"
    /\ Len(disk.sync_history) >= 1
    /\ disk.vulnerabilities # {}
    /\ write_lock = NoThread
    /\ conn.vulnerabilities # disk.vulnerabilities

---------------------------------------------------------------------------
(* The API client (src/core/api_client.py): authenticate and               *)
(* get_vulnerabilities with a batch_callback, against a remote API that     *)
(* serves a fixed list of pages.  A string whose content the code inspects  *)
(* (the cursor, the text of an exception) is a sequence of characters.      *)
(* client.trace lists what the call did: POST, GET, the answers, the sleeps *)
(* and the calls of batch_callback, in order.                               *)

MaxPages == 3     \* pages the API serves for one fetch
MaxRetries == 2   \* requests of one fetch that are answered so that it retries

NoCursor == <<>>  \* page_cursor = None; "if page_cursor" takes None and "" alike
Token == JStr("tok")

\* the endCursor that leads to page i; the client treats it as opaque
CursorOf(i) ==
    IF i = 1 THEN NoCursor
    ELSE IF i = 3 THEN <<"c", "4", "2", "9">>
    ELSE <<"c", ToString(i)>>
PageOf(cursor) == CHOOSE i \in 1..(MaxPages + 1) : CursorOf(i) = cursor

\* the records of page i: n records that no other page holds
PageData(i, n) ==
    [k \in 1..n |->
       JObj(<<Item("id", JStr("p" \o ToString(i) \o "r" \o ToString(k)))>>)]

\* what the API serves: for each page the number of its records
ApiScripts == UNION {[1..k -> 0..PageSize] : k \in 1..MaxPages}

\* response.json() of a successful answer to the request with this cursor:
\* {"results": {"data": [...], "pageInfo": {"hasNextPage", "endCursor"}}}
ResponseBody(api, cursor) ==
    LET i == PageOf(cursor)
    IN [data |-> PageData(i, api[i]),
        pageInfo |-> [hasNextPage |-> i < Len(api),
                      endCursor |-> IF i < Len(api) THEN CursorOf(i + 1)
                                    ELSE NoCursor]]

ClientStart(api, access_token) ==
    [pc |-> "enter", access_token |-> access_token, page_cursor |-> NoCursor,
     all_vulnerabilities |-> <<>>, trace |-> <<>>, retries |-> 0,
     api |-> api, error |-> "none"]

InitFetch ==
    /\ conn = EmptyTables
    /\ disk = EmptyTables
    /\ write_lock = NoThread
    /\ clock = 0
    /\ call = [t \in Threads |-> IdleFrame]
    /\ read = [r \in Readers |-> [op |-> "none", n |-> 0]]
    /\ coord = [pc |-> "off"]
    /\ run = NoRun
    /\ \E api \in ApiScripts, access_token \in {JNull, Token} :
          client = ClientStart(api, access_token)

\* if not self.access_token: self.authenticate(); all_vulnerabilities = [];
\* page_cursor = None
FetchEnterWithoutAuth ==
    /\ client.pc = "enter"
    /\ client' = [client EXCEPT !.pc = "request"]
    /\ UNCHANGED <<conn, disk, write_lock, clock, call, read, coord, run>>
FetchEnter ==
    /\ client.pc = "enter"
    /\ client' = [client EXCEPT
                    !.pc = IF ~Truthy(client.access_token) THEN "authenticate"
                           ELSE "request",
                    !.all_vulnerabilities = <<>>,
                    !.page_cursor = NoCursor]
    /\ UNCHANGED <<conn, disk, write_lock, clock, call, read, coord, run>>

\* authenticate(): POST /oauth/token.  It returns only with a token held; a
\* RequestException and a response without access_token both raise.
authenticate(outcome) ==
    /\ client.pc = "authenticate"
    /\ LET posted == [client EXCEPT !.trace = Append(@, [e |-> "POST"])]
       IN client' =
            CASE outcome = "token" ->
                   [posted EXCEPT !.access_token = Token, !.pc = "request"]
              [] outcome = "no_token" ->
                   [posted EXCEPT !.access_token = JNull, !.pc = "failed",
                                  !.error = "No access token in response"]
              [] outcome = "request_exception" ->
                   [posted EXCEPT !.pc = "failed", !.error = "Authentication failed"]
    /\ UNCHANGED <<conn, disk, write_lock, clock, call, read, coord, run>>

\* the head of the while loop: params, pageCursor if page_cursor, the
\* Authorization header, requests.get
SendRequest ==
    /\ client.pc = "request"
    /\ client' = [client EXCEPT
                    !.pc = "await",
                    !.trace = Append(@, [e |-> "GET", cursor |-> client.page_cursor,
                                         token |-> client.access_token])]
    /\ UNCHANGED <<conn, disk, write_lock, clock, call, read, coord, run>>

\* int(response.headers.get('Retry-After', 60)), the header being seconds
RetryAfterHeaders == {"absent", "1", "30"}
RetryAfter(header) ==
    CASE header = "absent" -> 60
      [] header = "1" -> 1
      [] header = "30" -> 30

\* "continue  # Retry this request": page_cursor is left as it is
CursorLostAfter429(page_cursor) == NoCursor
CursorAfter429(page_cursor) == page_cursor

\* response.status_code == 429: sleep, then the same request again
RateLimited(header) ==
    /\ client.pc = "await"
    /\ client.retries < MaxRetries
    /\ client' = [client EXCEPT
                    !.pc = "request",
                    !.retries = @ + 1,
                    !.page_cursor = CursorAfter429(@),
                    !.trace = @ \o <<[e |-> "429"],
                                     [e |-> "sleep", seconds |-> RetryAfter(header)]>>]
    /\ UNCHANGED <<conn, disk, write_lock, clock, call, read, coord, run>>

\* page_cursor = page_info.get("endCursor") if has_next_page else None
NextCursorNone(page_info) == NoCursor
NextCursor(page_info) ==
    IF page_info.hasNextPage THEN page_info.endCursor ELSE NoCursor

\* if not has_next_page: break
LoopEndsAtOnce(has_next_page) == TRUE
LoopEnds(has_next_page) == ~has_next_page

\* A 2xx answer: extend all_vulnerabilities, call batch_callback for a page
\* that is not empty, take the next cursor, leave the loop when there is no
\* next page (the fixed pause of 0.5 s after a page is not traced).
PageReceived ==
    /\ client.pc = "await"
    /\ LET body == ResponseBody(client.api, client.page_cursor)
           vulnerabilities_list == body.data
           has_next_page == body.pageInfo.hasNextPage
       IN client' =
            [client EXCEPT
               !.all_vulnerabilities = @ \o vulnerabilities_list,
               !.trace = @ \o <<[e |-> "200", page |-> PageOf(client.page_cursor)]>>
                           \o (IF vulnerabilities_list # <<>>
                               THEN <<[e |-> "onBatch", records |-> vulnerabilities_list]>>
                               ELSE <<>>),
               !.page_cursor = NextCursor(body.pageInfo),
               !.pc = IF LoopEnds(has_next_page) THEN "returned" ELSE "request"]
    /\ UNCHANGED <<conn, disk, write_lock, clock, call, read, coord, run>>

\* str(e) of the RequestException of a failed request: requests puts the
\* status and the URL, with its pageCursor parameter, into the text
ErrorStatuses == {<<"5", "0", "0">>, <<"4", "0", "1">>}
ErrorText(status, cursor) ==
    status \o <<" ", "f", "o", "r", " ", "u", "r", "l", " ">> \o cursor

\* pattern in text
Contains(text, pattern) ==
    \E i \in 1..(Len(text) - Len(pattern) + 1) :
       SubSeq(text, i, i + Len(pattern) - 1) = pattern

\* except requests.exceptions.RequestException as e: retry after 60 s when
\* '429' in str(e), else raise Exception("Failed to fetch vulnerabilities")
RequestFailed(status) ==
    /\ client.pc = "await"
    /\ LET text == ErrorText(status, client.page_cursor)
           failed == [e |-> "error", status |-> status]
       IN IF Contains(text, <<"4", "2", "9">>)
          THEN /\ client.retries < MaxRetries
               /\ client' = [client EXCEPT
                               !.pc = "request",
                               !.retries = @ + 1,
                               !.trace = @ \o <<failed, [e |-> "sleep", seconds |-> 60]>>]
          ELSE client' = [client EXCEPT
                            !.pc = "failed",
                            !.error = "Failed to fetch vulnerabilities",
                            !.trace = Append(@, failed)]
    /\ UNCHANGED <<conn, disk, write_lock, clock, call, read, coord, run>>

NextFetch ==
    \/ FetchEnter
    \/ \E outcome \in {"token", "no_token", "request_exception"} : authenticate(outcome)
    \/ SendRequest
    \/ \E header \in RetryAfterHeaders : RateLimited(header)
    \/ PageReceived
    \/ \E status \in ErrorStatuses : RequestFailed(status)

SpecFetch == InitFetch /\ [][NextFetch]_vars

\* An API that answers every page request with 429 or with the page and
\* whose token endpoint works; a request is eventually answered with the page.
NextServed ==
    \/ FetchEnter
    \/ authenticate("token")
    \/ SendRequest
    \/ \E header \in RetryAfterHeaders : RateLimited(header)
    \/ PageReceived

SpecFetchServed ==
    InitFetch /\ [][NextServed]_vars /\ WF_vars(NextServed) /\ SF_vars(PageReceived)

---------------------------------------------------------------------------
(* Claims about a fetch. *)

IsKind(kinds, ev) == ev.e \in kinds
OfKind(kinds) == SelectSeq(client.trace, LAMBDA ev : IsKind(kinds, ev))

RECURSIVE AllPages(_, _)
AllPages(api, n) == IF n = 0 THEN <<>> ELSE AllPages(api, n - 1) \o PageData(n, api[n])

RECURSIVE ConcatRecords(_, _)
ConcatRecords(batches, n) ==
    IF n = 0 THEN <<>> ELSE ConcatRecords(batches, n - 1) \o batches[n].records

\* C16: for an API that serves k pages, a fetch that is never told to retry
\* issues exactly k page requests, one per page in page order, and calls
\* onBatch exactly k times, once per page with that page's records, each call
\* made (and returned) before the request for the next page.
C16_OneCallPerPage ==
    (client.pc = "returned" /\ client.retries = 0) =>
       LET k == Len(client.api)
           steps == OfKind({"GET", "onBatch"})
       IN /\ Len(OfKind({"GET"})) = k
          /\ Len(OfKind({"onBatch"})) = k
          /\ Len(steps) = 2 * k
          /\ \A i \in 1..k :
                /\ steps[2 * i - 1].e = "GET"
                /\ steps[2 * i - 1].cursor = CursorOf(i)
                /\ steps[2 * i].e = "onBatch"
                /\ steps[2 * i].records = PageData(i, client.api[i])

\* C17: after a 429 the fetcher sleeps and issues the same request again,
\* with the same cursor; onBatch is called only right after a 2xx answer; and
\* whatever the number of 429 answers, a fetch that returns has each page's
\* records exactly once in the callback stream and exactly once in its result.
C17_RetrySamePage ==
    LET trace == client.trace
        batches == OfKind({"onBatch"})
    IN /\ \A i \in 1..Len(trace) :
             trace[i].e = "429" =>
                /\ i > 1 /\ trace[i - 1].e = "GET"
                /\ i < Len(trace) /\ trace[i + 1].e = "sleep"
                /\ i + 2 <= Len(trace) => trace[i + 2] = trace[i - 1]
       /\ \A i \in 1..Len(trace) :
             trace[i].e = "onBatch" => (i > 1 /\ trace[i - 1].e = "200")
       /\ client.pc = "returned" =>
             /\ client.all_vulnerabilities = AllPages(client.api, Len(client.api))
             /\ ConcatRecords(batches, Len(batches)) = AllPages(client.api, Len(client.api))

C17_Witness ==
    /\ client.pc = "returned"
    /\ Len(client.api) >= 2
    /\ Len(OfKind({"429"})) = 2
    /\ \E i \in 1..Len(client.trace) :
          client.trace[i].e = "429" /\ client.trace[i - 1].cursor # NoCursor
    /\ Len(client.all_vulnerabilities) >= 2

\* C18: no page request is issued while the client holds no bearer token: a
\* fetch started without a token authenticates first, and when authentication
\* fails the fetch fails with no page request sent and no onBatch call made.
AuthFailed ==
    client.pc = "failed"
       /\ client.error \in {"No access token in response", "Authentication failed"}
C18_TokenBeforeRequest ==
    /\ \A i \in 1..Len(client.trace) :
          client.trace[i].e = "GET" =>
             /\ Truthy(client.trace[i].token)
             /\ Truthy(client.access_token)
    /\ AuthFailed => OfKind({"GET", "onBatch"}) = <<>>

C18_Witness ==
    /\ AuthFailed
    /\ client.trace = <<[e |-> "POST"]>>
    /\ ~Truthy(client.access_token)

\* C19: a page request that fails with a transport or HTTP error other than a
\* 429 answer aborts the fetch: the error is the last thing that happens, it
\* is propagated, the request is not retried and no further page is requested.
C19_ErrorAborts ==
    \A i \in 1..Len(client.trace) :
       client.trace[i].e = "error" => (i = Len(client.trace) /\ client.pc = "failed")

\* C20: the loop ends exactly when a 2xx answer reports hasNextPage false; with
\* an API that serves finitely many pages and eventually answers each request
\* with the page, the fetch eventually returns, and its result is the
\* concatenation of all pages' records in page order.
PageAnswered ==
    /\ client.pc = "await"
    /\ Len(client'.trace) > Len(client.trace)
    /\ client'.trace[Len(client.trace) + 1].e = "200"
C20_FetchTerminates ==
    /\ <>(client.pc = "returned")
    /\ [](client.pc = "returned" =>
             client.all_vulnerabilities = AllPages(client.api, Len(client.api)))
    /\ [][(client.pc # "returned" /\ client'.pc = "returned")
             <=> (PageAnswered
                  /\ ~ResponseBody(client.api, client.page_cursor).pageInfo.hasNextPage)]_vars

C20_Witness ==
    /\ client.pc = "returned"
    /\ Len(client.api) = MaxPages
    /\ client.retries >= 1
    /\ Len(client.all_vulnerabilities) >= 2

---------------------------------------------------------------------------
(* exponential_backoff_with_jitter (src/lambda_handlers/utils/performance.py): *)
(* the wrapper it returns, called once.  `run` is the wrapper's frame; what    *)
(* func does at each call is up to func.                                       *)

MaxRetryBudget == 2   \* max_retries is drawn from -1..MaxRetryBudget
MaxBaseDelay == 2     \* base_delay is drawn from 1..MaxBaseDelay
MaxDelayBound == 3    \* max_delay is drawn from 1..MaxDelayBound

ErrorTypes == {"ConnectionError", "ValueError"}

RECURSIVE Pow2(_)
Pow2(n) == IF n = 0 THEN 1 ELSE 2 * Pow2(n - 1)

Min(a, b) == IF a <= b THEN a ELSE b

\* delay = min(base_delay * (2 ** retries), max_delay)
DelayUncapped(base_delay, max_delay, retries) == base_delay * Pow2(retries)
Delay(base_delay, max_delay, retries) == Min(base_delay * Pow2(retries), max_delay)

\* random.uniform(0, delay) when jitter, in whole seconds here
Jittered(delay, jitter) == IF jitter THEN 0..delay ELSE {delay}

\* except exceptions as e
Catches(exceptions, e) == e.type \in exceptions

\* if retries >= max_retries: raise
ShouldReraiseTooLate(retries, max_retries) == retries > max_retries
ShouldReraise(retries, max_retries) == retries >= max_retries

RetryStart(max_retries, base_delay, max_delay, jitter, exceptions) ==
    [pc |-> "loop", max_retries |-> max_retries, base_delay |-> base_delay,
     max_delay |-> max_delay, jitter |-> jitter, exceptions |-> exceptions,
     retries |-> 0, outcomes |-> <<>>, slept |-> <<>>]

StoreIdle ==
    /\ conn = EmptyTables
    /\ disk = EmptyTables
    /\ write_lock = NoThread
    /\ clock = 0
    /\ call = [t \in Threads |-> IdleFrame]
    /\ read = [r \in Readers |-> [op |-> "none", n |-> 0]]
    /\ coord = [pc |-> "off"]
    /\ client = NoClient

InitRetry ==
    /\ StoreIdle
    /\ \E max_retries \in (-1)..MaxRetryBudget, base_delay \in 1..MaxBaseDelay,
          max_delay \in 1..MaxDelayBound, jitter \in BOOLEAN,
          exceptions \in (SUBSET ErrorTypes) \ {{}} :
          run = RetryStart(max_retries, base_delay, max_delay, jitter, exceptions)

\* while retries <= max_retries: return func(*args, **kwargs)
FuncReturns ==
    /\ run.pc = "loop"
    /\ run.retries <= run.max_retries
    /\ run' = [run EXCEPT !.pc = "returned",
                          !.outcomes = Append(@, [t |-> "value", n |-> Len(@) + 1])]
               @@ [result |-> [t |-> "value", n |-> Len(run.outcomes) + 1]]
    /\ UNCHANGED <<conn, disk, write_lock, clock, call, read, coord, client>>

\* func raises e: caught when isinstance(e, exceptions), and then re-raised
\* when the retries are used up, else slept on and counted
FuncRaises(type) ==
    /\ run.pc = "loop"
    /\ run.retries <= run.max_retries
    /\ LET e == [t |-> "error", type |-> type, n |-> Len(run.outcomes) + 1]
           called == [run EXCEPT !.outcomes = Append(@, e)]
           delay == Delay(run.base_delay, run.max_delay, run.retries)
       IN IF ~Catches(run.exceptions, e) \/ ShouldReraise(run.retries, run.max_retries)
          THEN run' = [called EXCEPT !.pc = "raised"] @@ [error |-> e]
          ELSE \E slept \in Jittered(delay, run.jitter) :
                  run' = [called EXCEPT !.slept = Append(@, slept),
                                        !.retries = @ + 1]
    /\ UNCHANGED <<conn, disk, write_lock, clock, call, read, coord, client>>

\* the loop ends without a return: raise RuntimeError("Failed after ...")
LoopExhausted ==
    /\ run.pc = "loop"
    /\ ~(run.retries <= run.max_retries)
    /\ run' = [run EXCEPT !.pc = "raised"]
               @@ [error |-> [t |-> "error", type |-> "RuntimeError", n |-> 0]]
    /\ UNCHANGED <<conn, disk, write_lock, clock, call, read, coord, client>>

NextRetry ==
    \/ FuncReturns
    \/ \E type \in ErrorTypes : FuncRaises(type)
    \/ LoopExhausted

SpecRetry == InitRetry /\ [][NextRetry]_vars

RetryableFailure(run_, i) ==
    /\ run_.outcomes[i].t = "error"
    /\ run_.outcomes[i].type \in run_.exceptions

\* C21: Retry calls fn at most maxRetries + 1 times; it returns the first
\* successful result without calling fn again; after maxRetries + 1
\* consecutive retryable failures it raises the last such error; an error
\* of a type that is not retryable propagates at once, without a further call.
C21_RetryBudget ==
    (run.pc # "off" /\ run.max_retries >= 0) =>
       LET n == Len(run.outcomes) IN
       /\ n <= run.max_retries + 1
       /\ \A i \in 1..(n - 1) : RetryableFailure(run, i)
       /\ n > 0 =>
            CASE run.outcomes[n].t = "value" ->
                   run.pc = "returned" /\ run.result = run.outcomes[n]
              [] ~RetryableFailure(run, n) ->
                   run.pc = "raised" /\ run.error = run.outcomes[n]
              [] n = run.max_retries + 1 ->
                   run.pc = "raised" /\ run.error = run.outcomes[n]
              [] OTHER -> run.pc = "loop" /\ run.retries = n
       /\ n = 0 => run.pc = "loop"

C21_Witness ==
    /\ run.pc = "raised"
    /\ run.max_retries >= 1
    /\ Len(run.outcomes) = run.max_retries + 1
    /\ \A i \in 1..Len(run.outcomes) : RetryableFailure(run, i)
    /\ run.error = run.outcomes[Len(run.outcomes)]
    /\ run.exceptions # ErrorTypes

---------------------------------------------------------------------------
(* Claims about the history and sync_history rows of a store call. *)

\* the increase of the counters that goes with a change type
DeltaOf(change_type) ==
    [new |-> IF change_type = "discovered" THEN 1 ELSE 0,
     updated |-> IF change_type = "updated" THEN 1 ELSE 0,
     remediated |-> IF change_type = "remediated" THEN 1 ELSE 0]

\* the frames that are about to run a pass of the loop
InLoop == {f \in Started : f.pc = "loop" /\ f.i <= Len(f.vulnerabilities)}

\* C22: a ChangeEvent row is appended for a record if and only if
\* trackChanges is true and a change type was determined for it (and the
\* pass did not raise); with trackChanges=false a call appends no ChangeEvent
\* row at all, while a pass upserts the same current-state rows and counts
\* the same new/updated/remediated as it would with trackChanges=true.
C22_TrackedPass ==
    /\ \A f \in Started : \A i \in 1..Len(f.log) :
          LET e == f.log[i]
              determined == e.change_type \notin {NoChange, "skipped"}
          IN /\ e.events # <<>> <=> (f.track_changes /\ determined /\ ~e.raised)
             /\ e.events # <<>> =>
                   e.events = <<HistoryRow(e.vuln, e.change_type, f.current_time)>>
             /\ determined => Delta(f, i) = DeltaOf(e.change_type)
    /\ \A f \in InLoop :
          LET vuln == f.vulnerabilities[f.i]
              tracked == ProcessVuln(conn, vuln, TRUE, f.current_time)
              untracked == ProcessVuln(conn, vuln, FALSE, f.current_time)
          IN /\ untracked.events = <<>>
             /\ untracked.conn.vulnerability_history = conn.vulnerability_history
             /\ untracked.change_type = tracked.change_type
             /\ untracked.conn.vulnerabilities = tracked.conn.vulnerabilities
             /\ untracked.conn.data_elements = tracked.conn.data_elements
             /\ tracked.raised \/ ~untracked.raised

C22_HistoryIffTracked ==
    /\ []C22_TrackedPass
    /\ [][\A t \in DOMAIN call :
            (call[t].pc = "loop" /\ ~call[t].track_changes)
               => conn'.vulnerability_history = conn.vulnerability_history]_vars

C22_Witness ==
    \E f \in Started :
       /\ f.pc = "returned"
       /\ ~f.track_changes
       /\ f.ret.new = 1 /\ f.ret.updated = 1
       /\ EventsOf(f) = <<>>
       /\ \E id \in f.incoming_ids \cap f.existing_ids :
             \E r \in disk.vulnerabilities :
                r.id = id /\ r.last_updated = f.current_time

\* the counts of a sync_history row, named as the call returns them
CountsOf(row) ==
    [new |-> row.new_count, updated |-> row.updated_count,
     remediated |-> row.remediated_count, total |-> row.vulnerabilities_count]

Returning(t) == call[t].pc = "loop" /\ call'[t].pc = "returned"

\* C23: every StoreVulnerabilities call that completes appends exactly one
\* SyncRun row, after all its records are processed, whose new, updated,
\* remediated and total equal the counts the call returns (also for an empty
\* list and for trackChanges=false); no other step of a call appends one.
C23_OneSyncRunPerCall ==
    [][IF \E t \in DOMAIN call : Returning(t)
       THEN \A t \in DOMAIN call : Returning(t) =>
               LET f == call'[t] IN
               /\ Len(conn'.sync_history) = Len(conn.sync_history) + 1
               /\ SubSeq(conn'.sync_history, 1, Len(conn.sync_history))
                     = conn.sync_history
               /\ disk'.sync_history = conn'.sync_history
               /\ Len(f.log) = Len(f.vulnerabilities)
               /\ LET row == conn'.sync_history[Len(conn'.sync_history)]
                  IN row.sync_date = f.current_time /\ CountsOf(row) = f.ret
       ELSE /\ conn'.sync_history = conn.sync_history
            /\ disk'.sync_history = disk.sync_history]_vars

C23_Witness ==
    \E f \in Started :
       /\ f.pc = "returned"
       /\ f.vulnerabilities = <<>>
       /\ ~f.track_changes
       /\ Len(disk.sync_history) = 2
       /\ CountsOf(disk.sync_history[1]).total > 0
       /\ CountsOf(disk.sync_history[2]) = f.ret
       /\ f.ret.total = 0

\* the input records of frame f that have a non-empty id
WithId(f) ==
    {k \in 1..Len(f.vulnerabilities) : Truthy(DictGet(f.vulnerabilities[k], "id"))}

\* C25: the total returned by a store call and written to its SyncRun row
\* equals the number of input records with a non-empty id; a record without
\* an id is skipped, creates no current-state row, DataElement or
\* ChangeEvent, and is not counted.
C25_TotalCountsProcessed ==
    \A f \in Started :
       /\ \A i \in 1..Len(f.log) :
             f.log[i].change_type = "skipped" =>
                (f.log[i].events = <<>> /\ Delta(f, i) = NoDelta)
       /\ f.pc = "returned" =>
             /\ f.ret.total = Cardinality(WithId(f))
             /\ \A k \in 1..Len(disk.sync_history) :
                   disk.sync_history[k].sync_date = f.current_time =>
                      disk.sync_history[k].vulnerabilities_count = Cardinality(WithId(f))

---------------------------------------------------------------------------
(* store_vulnerability_remediations, as run by thread t.  Of the columns   *)
(* that are plain copies of a payload field (vulnerabilityId, severity,    *)
(* ..., status) `status` stands for all.                                    *)

RemediationRow(remediation, current_time) ==
    [id |-> DictGet(remediation, "id"),
     status |-> DictGet(remediation, "status"),
     last_updated |-> current_time,
     raw_data |-> JsonDumps(remediation, FALSE)]

\* existing is None: new; else the key-sorted texts differ: updated
RemediationChangeUnsorted(existing, remediation) ==
    IF existing = NoRow THEN "new"
    ELSE IF JsonDumps(JsonLoads(existing.raw_data), FALSE) # JsonDumps(remediation, FALSE)
         THEN "updated"
    ELSE NoChange
RemediationChange(existing, remediation) ==
    IF existing = NoRow THEN "new"
    ELSE LET old_data == JsonLoads(existing.raw_data)
         IN IF JsonDumps(old_data, TRUE) # JsonDumps(remediation, TRUE)
            THEN "updated"
            ELSE NoChange

\* One pass of "for remediation in remediations" on the connection's tables c.
ProcessRemediation(c, remediation, current_time) ==
    LET remediation_id == DictGet(remediation, "id")
        existing == FetchOne({r \in c.vulnerability_remediations :
                                r.id = remediation_id})
        counted == RemediationChange(existing, remediation)
        upserted ==
            [c EXCEPT
               !.vulnerability_remediations =
                   InsertOrReplace(@, RemediationRow(remediation, current_time)),
               !.data_elements =
                   store_data_elements(@, "vulnerability_remediation",
                                       remediation_id, remediation, current_time)]
        out(tables, ct, raised, ex) ==
            [conn |-> tables, counted |-> ct, raised |-> raised, existing |-> ex]
    IN IF ~Truthy(remediation_id) THEN out(c, "skipped", FALSE, NoRow)
       ELSE IF ~Bindable(remediation_id) THEN out(c, "skipped", TRUE, NoRow)
       ELSE IF ~Bindable(DictGet(remediation, "status"))
            THEN out(c, counted, TRUE, existing)
       ELSE out(upserted, counted, FALSE, existing)

\* with self._write_lock: cursor; current_time = utcnow(); counters = 0
RemEnter(t, remediations) ==
    /\ Acquirable(write_lock)
    /\ write_lock' = t
    /\ clock' = clock + 1
    /\ call' = [call EXCEPT ![t] =
                  [pc |-> "rem_loop", remediations |-> remediations, i |-> 1,
                   current_time |-> clock + 1,
                   new_count |-> 0, updated_count |-> 0, log |-> <<>>]]
    /\ UNCHANGED <<conn, disk, read, coord, client, run>>

\* one pass of the loop; an exception leaves the with block without commit
\* and without rollback
RemRecord(t) ==
    /\ call[t].pc = "rem_loop"
    /\ call[t].i <= Len(call[t].remediations)
    /\ LET f == call[t]
           remediation == f.remediations[f.i]
           r == ProcessRemediation(conn, remediation, f.current_time)
           new_count == f.new_count + (IF r.counted = "new" THEN 1 ELSE 0)
           updated_count == f.updated_count + (IF r.counted = "updated" THEN 1 ELSE 0)
           counted ==
               [f EXCEPT
                  !.new_count = new_count,
                  !.updated_count = updated_count,
                  !.log = Append(@, [remediation |-> remediation,
                                     existing |-> r.existing,
                                     counted |-> r.counted,
                                     raised |-> r.raised,
                                     new_count |-> new_count,
                                     updated_count |-> updated_count])]
       IN IF r.raised
          THEN /\ conn' = ExceptionExit(disk, r.conn).conn
               /\ disk' = ExceptionExit(disk, r.conn).disk
               /\ call' = [call EXCEPT ![t] = [counted EXCEPT !.pc = "rem_raised"]]
               /\ write_lock' = NoThread
          ELSE /\ conn' = r.conn
               /\ call' = [call EXCEPT ![t] = [counted EXCEPT !.i = @ + 1]]
               /\ UNCHANGED <<disk, write_lock>>
    /\ UNCHANGED <<clock, read, coord, client, run>>

\* self.conn.commit(); return {"new", "updated", "total"}
RemReturn(t) ==
    /\ call[t].pc = "rem_loop"
    /\ call[t].i > Len(call[t].remediations)
    /\ disk' = conn
    /\ call' = [call EXCEPT ![t] =
                  [call[t] EXCEPT !.pc = "rem_returned"] @@
                  [ret |-> [new |-> call[t].new_count,
                            updated |-> call[t].updated_count,
                            total |-> Len(call[t].remediations)]]]
    /\ write_lock' = NoThread
    /\ UNCHANGED <<conn, clock, read, coord, client, run>>

\* The remediation payloads the model draws from: a record, the same with
\* its keys swapped, an update of it, a nested one, one without id, one whose
\* status sqlite cannot bind, and one whose keys give one path twice.
Remediations ==
    {JObj(<<Item("id", JStr("a")), Item("status", JStr("open"))>>),
     JObj(<<Item("status", JStr("open")), Item("id", JStr("a"))>>),
     JObj(<<Item("id", JStr("a")), Item("status", JStr("closed"))>>),
     JObj(<<Item("id", JStr("b")), Item("status", JStr("open")),
            Item("a", JList(<<JNum(1), JObj(<<Item("b", JNum(2))>>)>>))>>),
     JObj(<<Item("status", JStr("open"))>>),
     JObj(<<Item("id", JStr("b")), Item("status", JList(<<JStr("x")>>))>>),
     JObj(<<Item("id", JStr("a")), Item("a.b", JNum(1)),
            Item("a", JObj(<<Item("b", JNum(2))>>))>>)}

\* the vulnerability payloads stored alongside the remediations
RemVulns == {Payload("A1"), Payload("A1deact"), Payload("BstrDeact")}

InvokeRemediations(t) ==
    /\ clock < MaxCalls
    /\ call[t].pc # "loop"
    /\ \E remediations \in SeqsUpTo(Remediations, MaxBatch) : RemEnter(t, remediations)

InvokeAlongside(t) ==
    /\ clock < MaxCalls
    /\ \E vulnerabilities \in SeqsUpTo(RemVulns, MaxBatch), track_changes \in BOOLEAN :
          StoreEnter(t, vulnerabilities, track_changes)

NextRem ==
    \E t \in Callers :
       \/ InvokeRemediations(t)
       \/ RemRecord(t)
       \/ RemReturn(t)
       \/ InvokeAlongside(t)
       \/ StoreRecord(t)
       \/ StoreReturn(t)

SpecRem == Init /\ [][NextRem]_vars

RemFrames == {f \in Frames : f.pc \in {"rem_loop", "rem_returned", "rem_raised"}}
RemReturning(t) == call[t].pc = "rem_loop" /\ call'[t].pc = "rem_returned"

\* C24: a SyncRun summary row is recorded once per store call for every kind
\* of store operation: a completed StoreRemediations call, too, appends
\* exactly one SyncRun row.
C24_RemediationsSyncRun ==
    [][\A t \in DOMAIN call :
          RemReturning(t) =>
             /\ Len(conn'.sync_history) = Len(conn.sync_history) + 1
             /\ disk'.sync_history = conn'.sync_history]_vars

\* the increase of the counters over the i-th pass of remediation frame f
RemDelta(f, i) ==
    LET before == IF i = 1 THEN [new_count |-> 0, updated_count |-> 0]
                  ELSE f.log[i - 1]
    IN [new |-> f.log[i].new_count - before.new_count,
        updated |-> f.log[i].updated_count - before.updated_count]

RemPassing(t) ==
    /\ call[t].pc = "rem_loop"
    /\ call'[t].pc = "rem_loop"
    /\ call'[t].i = call[t].i + 1

\* C28: StoreRemediations never appends a ChangeEvent row; for each record
\* with a non-empty id it counts new when the id has no stored row, updated
\* when the stored payload differs from the incoming payload under
\* key-sorted serialization, and neither when they are equal, and in all
\* three cases it replaces the stored row with the incoming payload.
C28_RemediationPasses ==
    \A f \in RemFrames : \A i \in 1..Len(f.log) :
       LET e == f.log[i] IN
       IF e.counted = "skipped" THEN RemDelta(f, i) = [new |-> 0, updated |-> 0]
       ELSE IF e.existing = NoRow
            THEN RemDelta(f, i) = [new |-> 1, updated |-> 0]
       ELSE IF SortKeys(e.existing.raw_data.json) # SortKeys(e.remediation)
            THEN RemDelta(f, i) = [new |-> 0, updated |-> 1]
       ELSE RemDelta(f, i) = [new |-> 0, updated |-> 0]

C28_RemediationsCount ==
    /\ []C28_RemediationPasses
    /\ [][\A t \in DOMAIN call :
            /\ call[t].pc = "rem_loop" =>
                  conn'.vulnerability_history = conn.vulnerability_history
            /\ RemPassing(t) =>
                  LET remediation == call[t].remediations[call[t].i]
                      id == DictGet(remediation, "id")
                  IN Truthy(id) =>
                       {r \in conn'.vulnerability_remediations : r.id = id}
                          = {[id |-> id,
                              status |-> DictGet(remediation, "status"),
                              last_updated |-> call[t].current_time,
                              raw_data |-> [json |-> remediation]]}]_vars

C28_Witness ==
    \E f \in RemFrames :
       /\ f.pc = "rem_returned"
       /\ Len(f.log) = 2
       /\ f.log[1].existing # NoRow
       /\ f.log[1].existing.raw_data.json # f.log[1].remediation
       /\ f.log[1].counted = NoChange
       /\ f.log[2].counted = "updated"
       /\ f.ret = [new |-> 0, updated |-> 1, total |-> 2]
       /\ \E r \in disk.vulnerability_remediations :
             r.raw_data.json = f.log[2].remediation

\* the rows of data_elements a stored payload calls for: one per element of
\* [("__root__", data)] + flatten(data), with the element's value
ElementsOf(record_type, record_id, data) ==
    LET elements == <<[path |-> "__root__", value |-> data]>> \o flatten_data(data, "")
    IN {[record_type |-> record_type, record_id |-> record_id,
         element_path |-> elements[k].path,
         element_value |-> normalize_for_storage(elements[k].value)] :
           k \in 1..Len(elements)}

StoredElements(tables, record_type, record_id) ==
    {[record_type |-> r.record_type, record_id |-> r.record_id,
      element_path |-> r.element_path, element_value |-> r.element_value] :
        r \in {r \in tables.data_elements :
                 r.record_type = record_type /\ r.record_id = record_id}}

Mirrors(tables) ==
    /\ \A r \in tables.vulnerabilities :
          StoredElements(tables, "vulnerability", r.id)
             = ElementsOf("vulnerability", r.id, JsonLoads(r.raw_data))
    /\ \A r \in tables.vulnerability_remediations :
          StoredElements(tables, "vulnerability_remediation", r.id)
             = ElementsOf("vulnerability_remediation", r.id, JsonLoads(r.raw_data))
    /\ \A e \in tables.data_elements :
          \/ /\ e.record_type = "vulnerability"
             /\ \E r \in tables.vulnerabilities : r.id = e.record_id
          \/ /\ e.record_type = "vulnerability_remediation"
             /\ \E r \in tables.vulnerability_remediations : r.id = e.record_id

\* C27: after any sequence of store calls, the DataElement rows of each
\* (record_type, record_id) are exactly the flattening of that record's
\* currently stored payload: every path of the current payload is present
\* with the current value, and no path that existed only in an earlier
\* payload of the record survives.
C27_ElementsMirrorPayload == Mirrors(conn) /\ Mirrors(disk)

---------------------------------------------------------------------------
(* _flatten_data applied to one payload, as _store_data_elements applies it. *)

MaxDepth == 2   \* nesting of the value under a key of the payload
MaxItems == 2   \* items of a mapping or a sequence

Scalars == {JNum(1), JNum(2)}
Keys == {"", "a", "b"}

DistinctKeys(kv) == \A i, j \in 1..Len(kv) : kv[i].k = kv[j].k => i = j

\* the mappings of up to MaxItems items with values from S
Mappings(S) ==
    {JObj(kv) : kv \in {kv \in SeqsUpTo([k : Keys, v : S], MaxItems) : DistinctKeys(kv)}}

\* the JSON values of nesting depth up to d
RECURSIVE JsonValues(_)
JsonValues(d) ==
    IF d = 0 THEN Scalars
    ELSE LET S == JsonValues(d - 1)
         IN S \cup Mappings(S) \cup {JList(xs) : xs \in SeqsUpTo(S, MaxItems)}

\* a payload is a mapping: of several shallow values, or of one deep value
Payloads(depth) ==
    Mappings(JsonValues(depth - 1))
       \cup {JObj(<<Item(k, v)>>) : k \in Keys, v \in JsonValues(depth)}

\* payloads with keys that read like paths
PathLikePayloads ==
    {JObj(<<Item("a.b", JNum(1)), Item("a", JObj(<<Item("b", JNum(2))>>))>>),
     JObj(<<Item("a", JObj(<<Item("b", JNum(2))>>)), Item("a.b", JNum(1))>>),
     JObj(<<Item("a[0]", JNum(1)), Item("a", JList(<<JNum(2)>>))>>),
     JObj(<<Item("a.b", JNum(1)), Item("a[0]", JNum(2))>>),
     JObj(<<Item("a", JObj(<<Item("a.b", JNum(1)), Item("a[0]", JNum(2))>>))>>),
     JObj(<<Item("__root__", JNum(1))>>),
     JObj(<<Item("a", JObj(<<Item("__root__", JNum(1))>>))>>)}

InitFlatten ==
    /\ StoreIdle
    /\ \E data \in Payloads(MaxDepth) \cup PathLikePayloads :
          run = [pc |-> "args", data |-> data]

\* _store_data_elements for a record that has no rows yet:
\* elements = [("__root__", data)] + self._flatten_data(data), and one
\* INSERT OR REPLACE per element
Flatten ==
    /\ run.pc = "args"
    /\ run' = [pc |-> "returned", data |-> run.data,
               elements |-> <<[path |-> "__root__", value |-> run.data]>>
                               \o flatten_data(run.data, ""),
               rows |-> store_data_elements({}, "vulnerability", JStr("x"),
                                            run.data, 0)]
    /\ UNCHANGED <<conn, disk, write_lock, clock, call, read, coord, client>>

NextFlatten == Flatten

SpecFlatten == InitFlatten /\ [][NextFlatten]_vars

\* the paths the rule gives to the values below v, v being at path p
RECURSIVE PathsBelow(_, _)
PathsBelow(v, p) ==
    CASE v.t = "obj" ->
           UNION {LET path == IF p = "" THEN v.kv[i].k ELSE p \o "." \o v.kv[i].k
                  IN {path} \cup PathsBelow(v.kv[i].v, path) : i \in 1..Len(v.kv)}
      [] v.t = "list" ->
           UNION {LET path == IF p = "" THEN "[" \o ToString(i - 1) \o "]"
                              ELSE p \o "[" \o ToString(i - 1) \o "]"
                  IN {path} \cup PathsBelow(v.xs[i], path) : i \in 1..Len(v.xs)}
      [] OTHER -> {}

PathsOf(elements) == {elements[k].path : k \in 1..Len(elements)}

ExamplePayload ==
    JObj(<<Item("a", JList(<<JNum(1), JObj(<<Item("b", JNum(2))>>)>>))>>)

\* C26: flattening a payload yields exactly these paths: __root__ for the
\* whole payload; for a mapping at path p one path p.k (k when p is empty)
\* per key k; for a sequence at path p one path p[i] ([i] when p is empty)
\* per index i; a composite value is stored at its own path and also
\* recursed into, a scalar is a leaf.  For {"a": [1, {"b": 2}]} the paths
\* are exactly {__root__, a, a[0], a[1], a[1].b}.
C26_FlattenPaths ==
    run.pc = "returned" =>
       /\ PathsOf(run.elements) = {"__root__"} \cup PathsBelow(run.data, "")
       /\ run.data = ExamplePayload =>
             PathsOf(run.elements) = {"__root__", "a", "a[0]", "a[1]", "a[1].b"}

---------------------------------------------------------------------------
(* VulnerabilityStats.filter_vulnerabilities (src/core/stats.py), called    *)
(* once on the list the object was built with.                              *)

MaxFilterList == 2   \* records in self.vulnerabilities

\* str.upper() on the strings that occur
Upper(s) ==
    CASE s = "critical" -> "CRITICAL"
      [] s = "high" -> "HIGH"
      [] s = "High" -> "HIGH"
      [] s = "low" -> "LOW"
      [] s = "cve-1" -> "CVE-1"
      [] s = "CVE-1 in lib" -> "CVE-1 IN LIB"
      [] s = "other" -> "OTHER"
      [] OTHER -> s

\* pattern in text, on the strings that occur
Within(pattern, text) ==
    pattern = text \/ <<pattern, text>> \in {<<"CVE-1", "CVE-1 IN LIB">>}

\* datetime.fromisoformat(text.replace('Z', '+00:00')): the day, and whether
\* the datetime carries an offset; a text that is no ISO date raises
IsoValid(text) ==
    text \in {"2024-01-01", "2024-01-02", "2024-01-03", "2024-01-02T00:00:00Z"}
FromIsoFormat(text) ==
    CASE text = "2024-01-01" -> [day |-> 1, aware |-> FALSE]
      [] text = "2024-01-02" -> [day |-> 2, aware |-> FALSE]
      [] text = "2024-01-03" -> [day |-> 3, aware |-> FALSE]
      [] text = "2024-01-02T00:00:00Z" -> [day |-> 2, aware |-> TRUE]

NoError == "none"

\* [v for v in filtered if <condition>], keep[i] and err[i] being what the
\* condition yields for filtered[i]: the first record whose condition raises
\* ends the call with that error
RECURSIVE FirstError(_, _)
FirstError(err, i) ==
    IF i > Len(err) THEN NoError
    ELSE IF err[i] # NoError THEN err[i]
    ELSE FirstError(err, i + 1)

RECURSIVE Kept(_, _, _)
Kept(filtered, keep, i) ==
    IF i > Len(filtered) THEN <<>>
    ELSE (IF keep[i] THEN <<filtered[i]>> ELSE <<>>) \o Kept(filtered, keep, i + 1)

Comprehension(filtered, keep, err) ==
    IF FirstError(err, 1) # NoError
    THEN [raised |-> TRUE, error |-> FirstError(err, 1)]
    ELSE [raised |-> FALSE, list |-> Kept(filtered, keep, 1)]

\* <text of the record> and fromisoformat(<text>.replace(...)) <op> bound_dt
DateErr(date, bound_dt) ==
    IF ~Truthy(date) THEN NoError
    ELSE IF date.t # "str" THEN "AttributeError"
    ELSE IF ~IsoValid(date.s) THEN "ValueError"
    ELSE IF FromIsoFormat(date.s).aware # bound_dt.aware THEN "TypeError"
    ELSE NoError

DateKeep(date, bound_dt, at_least) ==
    /\ Truthy(date)
    /\ IF at_least THEN FromIsoFormat(date.s).day >= bound_dt.day
       ELSE FromIsoFormat(date.s).day <= bound_dt.day

\* vuln.get('deactivateMetadata', {}).get('deactivatedOnDate')
RemediationDateErr(vuln) ==
    IF HasKey(vuln, "deactivateMetadata") /\ DictGet(vuln, "deactivateMetadata").t # "obj"
    THEN "AttributeError"
    ELSE NoError

get_remediation_date(vuln) ==
    IF ~HasKey(vuln, "deactivateMetadata") THEN JNull
    ELSE IF Truthy(DictGet(DictGet(vuln, "deactivateMetadata"), "deactivatedOnDate"))
         THEN DictGet(DictGet(vuln, "deactivateMetadata"), "deactivatedOnDate")
    ELSE JNull

\* one filter on firstDetectedDate: skipped when the bound is None or empty
IdentifiedStage(prev, bound, at_least) ==
    IF prev.raised \/ ~Truthy(bound) THEN prev
    ELSE IF ~IsoValid(bound.s) THEN [raised |-> TRUE, error |-> "ValueError"]
    ELSE LET bound_dt == FromIsoFormat(bound.s)
             date(v) == DictGet(v, "firstDetectedDate")
         IN Comprehension(prev.list,
               [i \in 1..Len(prev.list) |->
                   DateKeep(date(prev.list[i]), bound_dt, at_least)],
               [i \in 1..Len(prev.list) |-> DateErr(date(prev.list[i]), bound_dt)])

\* one filter on get_remediation_date(v)
RemediatedStage(prev, bound, at_least) ==
    IF prev.raised \/ ~Truthy(bound) THEN prev
    ELSE IF ~IsoValid(bound.s) THEN [raised |-> TRUE, error |-> "ValueError"]
    ELSE LET bound_dt == FromIsoFormat(bound.s)
         IN Comprehension(prev.list,
               [i \in 1..Len(prev.list) |->
                   DateKeep(get_remediation_date(prev.list[i]), bound_dt, at_least)],
               [i \in 1..Len(prev.list) |->
                   IF RemediationDateErr(prev.list[i]) # NoError
                   THEN RemediationDateErr(prev.list[i])
                   ELSE DateErr(get_remediation_date(prev.list[i]), bound_dt)])

\* severity_upper = [s.upper() for s in severity];
\* v.get('severity') in severity_upper
SeverityStage(prev, severity) ==
    IF prev.raised \/ ~Truthy(severity) THEN prev
    ELSE LET severity_upper == {Upper(severity.xs[k].s) : k \in 1..Len(severity.xs)}
         IN Comprehension(prev.list,
               [i \in 1..Len(prev.list) |->
                   /\ DictGet(prev.list[i], "severity").t = "str"
                   /\ DictGet(prev.list[i], "severity").s \in severity_upper],
               [i \in 1..Len(prev.list) |-> NoError])

\* cve_upper in v.get('name', '').upper()
\*    or cve_upper in str(v.get('relatedVulns', [])).upper()
\* (the text of a list of strings holds each of the strings)
CveStage(prev, cve) ==
    IF prev.raised \/ ~Truthy(cve) THEN prev
    ELSE LET cve_upper == Upper(cve.s)
             related(v) == IF HasKey(v, "relatedVulns") THEN DictGet(v, "relatedVulns").xs
                           ELSE <<>>
         IN Comprehension(prev.list,
               [i \in 1..Len(prev.list) |->
                   \/ /\ HasKey(prev.list[i], "name")
                      /\ Within(cve_upper, Upper(DictGet(prev.list[i], "name").s))
                   \/ \E k \in 1..Len(related(prev.list[i])) :
                         Within(cve_upper, Upper(related(prev.list[i])[k].s))],
               [i \in 1..Len(prev.list) |->
                   IF /\ HasKey(prev.list[i], "name")
                      /\ DictGet(prev.list[i], "name").t # "str"
                   THEN "AttributeError" ELSE NoError])

\* v.get('targetId') == asset_id
AssetStage(prev, asset_id) ==
    IF prev.raised \/ ~Truthy(asset_id) THEN prev
    ELSE Comprehension(prev.list,
            [i \in 1..Len(prev.list) |-> DictGet(prev.list[i], "targetId") = asset_id],
            [i \in 1..Len(prev.list) |-> NoError])

filter_vulnerabilities(vulnerabilities, a) ==
    LET s0 == [raised |-> FALSE, list |-> vulnerabilities]
        s1 == IdentifiedStage(s0, a.date_identified_start, TRUE)
        s2 == IdentifiedStage(s1, a.date_identified_end, FALSE)
        s3 == RemediatedStage(s2, a.date_remediated_start, TRUE)
        s4 == RemediatedStage(s3, a.date_remediated_end, FALSE)
        s5 == SeverityStage(s4, a.severity)
        s6 == CveStage(s5, a.cve)
    IN AssetStage(s6, a.asset_id)

\* The records and arguments the model draws from.
FilterVulns ==
    LET DateOn(text) == JObj(<<Item("deactivatedOnDate", JStr(text))>>)
    IN {JObj(<<Item("id", JStr("a")), Item("severity", JStr("CRITICAL")),
               Item("deactivateMetadata", DateOn("2024-01-01")),
               Item("firstDetectedDate", JStr("2024-01-02")),
               Item("name", JStr("CVE-1 in lib")), Item("targetId", JStr("t1"))>>),
        JObj(<<Item("id", JStr("b")), Item("severity", JStr("high")),
               Item("deactivateMetadata", DateOn("2024-01-02"))>>),
        JObj(<<Item("id", JStr("c")), Item("severity", JStr("HIGH")),
               Item("deactivateMetadata", DateOn("2024-01-03")),
               Item("name", JStr("other")), Item("targetId", JStr("t2")),
               Item("relatedVulns", JList(<<JStr("cve-1")>>))>>),
        JObj(<<Item("id", JStr("d")), Item("severity", JStr("High"))>>),
        JObj(<<Item("id", JStr("e")), Item("severity", JStr("LOW")),
               Item("deactivateMetadata", JNull)>>),
        JObj(<<Item("id", JStr("f")), Item("deactivateMetadata", JObj(<<>>))>>),
        JObj(<<Item("id", JStr("g")), Item("severity", JStr("LOW")),
               Item("deactivateMetadata", DateOn("2024-01-02T00:00:00Z")),
               Item("firstDetectedDate", JStr("2024-01-02T00:00:00Z"))>>),
        JObj(<<Item("id", JStr("h")), Item("severity", JStr("CRITICAL")),
               Item("name", JNull), Item("deactivateMetadata", DateOn("soon"))>>)}

FilterArgs ==
    LET identified == {JNull, JStr("2024-01-02")}
        remediated == {JNull, JStr("2024-01-02"), JStr("2024-01-02T00:00:00Z")}
    IN [date_identified_start : identified, date_identified_end : identified,
        date_remediated_start : remediated, date_remediated_end : remediated,
        severity : {JNull, JList(<<>>), JList(<<JStr("HIGH")>>),
                    JList(<<JStr("critical"), JStr("High")>>), JList(<<JStr("low")>>)},
        cve : {JNull, JStr("cve-1")},
        asset_id : {JNull, JStr("t1")}]

InitFilter ==
    /\ StoreIdle
    /\ \E vulnerabilities \in SeqsUpTo(FilterVulns, MaxFilterList), args \in FilterArgs :
          run = [pc |-> "args", vulnerabilities |-> vulnerabilities, args |-> args]

Filter ==
    /\ run.pc = "args"
    /\ LET r == filter_vulnerabilities(run.vulnerabilities, run.args)
       IN run' = IF r.raised
                 THEN [run EXCEPT !.pc = "raised"] @@ [error |-> r.error]
                 ELSE [run EXCEPT !.pc = "returned"] @@ [result |-> r.list]
    /\ UNCHANGED <<conn, disk, write_lock, clock, call, read, coord, client>>

NextFilter == Filter

SpecFilter == InitFilter /\ [][NextFilter]_vars

\* the arguments but for the named ones are left at None
OnlyArgs(names) ==
    \A n \in DOMAIN run.args : n \notin names => run.args[n] = JNull

\* C29: Filter with a severity set returns exactly the input records whose
\* severity is a member of the set under case-insensitive comparison, in
\* input order.
C29_SeverityFilter ==
    (/\ run.pc \in {"returned", "raised"}
     /\ OnlyArgs({"severity"})
     /\ Truthy(run.args.severity))
    => /\ run.pc = "returned"
       /\ run.result =
            SelectSeq(run.vulnerabilities,
               LAMBDA v : /\ DictGet(v, "severity").t = "str"
                          /\ \E k \in 1..Len(run.args.severity.xs) :
                                Upper(DictGet(v, "severity").s)
                                   = Upper(run.args.severity.xs[k].s))

\* what the data model says of a record's remediation date
LacksDate(v) ==
    \/ ~HasKey(v, "deactivateMetadata")
    \/ DictGet(v, "deactivateMetadata") = JNull
    \/ /\ DictGet(v, "deactivateMetadata").t = "obj"
       /\ ~HasKey(DictGet(v, "deactivateMetadata"), "deactivatedOnDate")
DateOfRecord(v) == DictGet(DictGet(v, "deactivateMetadata"), "deactivatedOnDate").s
Comparable(text, bound) ==
    /\ IsoValid(text)
    /\ Truthy(bound) => FromIsoFormat(text).aware = FromIsoFormat(bound.s).aware
WithinBounds(v, a) ==
    /\ ~LacksDate(v)
    /\ Truthy(a.date_remediated_start) =>
          FromIsoFormat(DateOfRecord(v)).day >= FromIsoFormat(a.date_remediated_start.s).day
    /\ Truthy(a.date_remediated_end) =>
          FromIsoFormat(DateOfRecord(v)).day <= FromIsoFormat(a.date_remediated_end.s).day

\* C30: with a remediated-date bound, Filter keeps a record only if its
\* deactivateMetadata.deactivatedOnDate lies within the inclusive bounds;
\* every record without that field (deactivateMetadata absent, null, or
\* lacking deactivatedOnDate) is left out, and Filter still returns a result
\* for such inputs (it may raise only for a date it cannot read or compare
\* with the bounds).
C30_RemediatedFilter ==
    (/\ run.pc \in {"returned", "raised"}
     /\ OnlyArgs({"date_remediated_start", "date_remediated_end"})
     /\ Truthy(run.args.date_remediated_start) \/ Truthy(run.args.date_remediated_end))
    => LET a == run.args
           vs == run.vulnerabilities
           readable == \A k \in 1..Len(vs) :
                          \/ LacksDate(vs[k])
                          \/ /\ Comparable(DateOfRecord(vs[k]), a.date_remediated_start)
                             /\ Comparable(DateOfRecord(vs[k]), a.date_remediated_end)
       IN /\ readable => run.pc = "returned"
          /\ run.pc = "returned" =>
                run.result = SelectSeq(vs, LAMBDA v : WithinBounds(v, a))

---------------------------------------------------------------------------
(* Several threads calling the two store operations of one store. *)

NumLockCallers == 2   \* threads that call the store in SpecLock

\* a thread calls when it is not inside a call
InvokeEither(t) ==
    /\ clock < MaxCalls
    /\ call[t].pc \notin {"loop", "rem_loop"}
    /\ \/ \E vulnerabilities \in SeqsUpTo(RemVulns, MaxBatch), track_changes \in BOOLEAN :
             StoreEnter(t, vulnerabilities, track_changes)
       \/ \E remediations \in SeqsUpTo(Remediations, MaxBatch) :
             RemEnter(t, remediations)

NextLock ==
    \E t \in 1..NumLockCallers :
       \/ InvokeEither(t)
       \/ StoreRecord(t)
       \/ StoreReturn(t)
       \/ RemRecord(t)
       \/ RemReturn(t)

SpecLock == Init /\ [][NextLock]_vars

\* the threads inside the critical section of a store operation
InCritical == {t \in DOMAIN call : call[t].pc \in {"loop", "rem_loop"}}

\* C31: at most one mutating operation (StoreVulnerabilities or
\* StoreRemediations) is inside its critical section at any time, and each
\* holds the single write lock for its full duration, from its first read of
\* existing state to its commit: the tables change, and are committed, only
\* by a step of the thread that holds the lock.
C31_LockHeld ==
    /\ Cardinality(InCritical) <= 1
    /\ \A t \in InCritical : write_lock = t
    /\ write_lock # NoThread => write_lock \in InCritical

C31_OneWriter ==
    /\ []C31_LockHeld
    /\ [][(conn' # conn \/ disk' # disk) =>
             /\ write_lock \in InCritical
             /\ call'[write_lock] # call[write_lock]
             /\ \A u \in DOMAIN call : u # write_lock => call'[u] = call[u]]_vars

C31_Witness ==
    /\ write_lock = 2
    /\ call[2].pc = "rem_loop"
    /\ call[2].i = 2
    /\ call[1].pc = "returned"
    /\ conn # disk

---------------------------------------------------------------------------
(* The change log written by the jobs of a sync. *)

\* the jobs whose store call wrote a row: the call that stamped it
JobsOfRow(row) ==
    {j \in SyncJobs : call[j].pc # "idle" /\ call[j].current_time = row.snapshot_date}

\* C32: the ChangeEvent rows written by one store job form a contiguous
\* block of the log, the rows of two concurrently running jobs never
\* interleave, and the blocks appear in the order in which the jobs acquired
\* the write lock (the order of their timestamps), which may differ from the
\* order in which the jobs were submitted.
C32_Blocks ==
    LET h == conn.vulnerability_history
    IN /\ \A k \in 1..Len(h) : Cardinality(JobsOfRow(h[k])) = 1
       /\ \A k1 \in 1..Len(h), k3 \in 1..Len(h) :
             (k1 < k3 /\ JobsOfRow(h[k1]) = JobsOfRow(h[k3]))
                => \A k2 \in k1..k3 : JobsOfRow(h[k2]) = JobsOfRow(h[k1])
       /\ \A k1 \in 1..Len(h), k2 \in 1..Len(h) :
             k1 < k2 => h[k1].snapshot_date <= h[k2].snapshot_date

C32_ContiguousBlocks ==
    /\ []C32_Blocks
    /\ [][conn'.vulnerability_history # conn.vulnerability_history =>
            /\ write_lock \in SyncJobs
            /\ call'[write_lock] # call[write_lock]
            /\ IsPrefix(conn.vulnerability_history, conn'.vulnerability_history)
            /\ \A k \in (Len(conn.vulnerability_history) + 1)..Len(conn'.vulnerability_history) :
                  conn'.vulnerability_history[k].snapshot_date = call[write_lock].current_time]_vars

\* the job submitted second wrote its block before the job submitted first
C32_Witness ==
    /\ Len(coord.futures) = 2
    /\ call[1].pc = "returned"
    /\ call[2].pc = "returned"
    /\ call[2].current_time < call[1].current_time
    /\ \E k1 \in 1..Len(disk.vulnerability_history), k2 \in 1..Len(disk.vulnerability_history) :
          /\ k1 < k2
          /\ JobsOfRow(disk.vulnerability_history[k1]) = {2}
          /\ JobsOfRow(disk.vulnerability_history[k2]) = {1}

---------------------------------------------------------------------------
(* An id that occurs twice in one call. *)

\* the returned tracked calls of two records with one id that was absent
DuplicateCalls ==
    {f \in Started :
        /\ f.pc = "returned"
        /\ f.track_changes
        /\ Len(f.vulnerabilities) = 2
        /\ Truthy(DictGet(f.vulnerabilities[1], "id"))
        /\ DictGet(f.vulnerabilities[1], "id") = DictGet(f.vulnerabilities[2], "id")
        /\ DictGet(f.vulnerabilities[1], "id") \notin f.existing_ids}

SamePayload(v, w) == JsonDumps(v, TRUE) = JsonDumps(w, TRUE)
SameActivation(v, w) ==
    (DictGet(v, "deactivateMetadata") = JNull) <=> (DictGet(w, "deactivateMetadata") = JNull)

\* C33: when one StoreVulnerabilities call contains the same id twice, the
\* second occurrence is classified against the row the first occurrence
\* wrote, not against the state before the call: two identical occurrences
\* of an absent id yield new=1, nothing else, and a single ChangeEvent, of
\* type discovered; a second occurrence with a different payload (of the
\* same activation state) yields updated=1 and one updated ChangeEvent in
\* addition.
C33_DuplicateIds ==
    \A f \in DuplicateCalls :
       LET v == f.vulnerabilities[1]
           w == f.vulnerabilities[2]
       IN /\ f.log[2].existing # NoRow
          /\ f.log[2].existing.raw_data = JsonDumps(v, FALSE)
          /\ f.ret.new = 1
          /\ SamePayload(v, w) =>
                /\ f.ret.updated = 0
                /\ f.ret.remediated = 0
                /\ OneEvent(EventsOf(f), v, "discovered")
          /\ (~SamePayload(v, w) /\ SameActivation(v, w)) =>
                /\ f.ret.updated = 1
                /\ f.ret.remediated = 0
                /\ Len(EventsOf(f)) = 2
                /\ EventsOf(f)[1].change_type = "discovered"
                /\ EventsOf(f)[2].change_type = "updated"

---------------------------------------------------------------------------
(* The life cycle of an id in the change log. *)

StoredHistoryIds == {JStr("a"), JStr("b")}

\* the change types of the ChangeEvents of id, in history order
RECURSIVE TypesOf(_, _)
TypesOf(history, id) ==
    IF history = <<>> THEN <<>>
    ELSE (IF Head(history).vuln_id = id THEN <<Head(history).change_type>> ELSE <<>>)
         \o TypesOf(Tail(history), id)

\* every call so far tracked changes
AlwaysTracked ==
    \A f \in Started :
       f.track_changes /\ (f.previous.pc # "idle" => f.previous.track_changes)

LifeCycle(types) ==
    /\ types # <<>> => types[1] = "discovered"
    /\ \A k \in 2..Len(types) : types[k] # "discovered"
    /\ LET flips == SelectSeq(types, LAMBDA ct : ct \in {"remediated", "reactivated"})
       IN \A k \in 1..(Len(flips) - 1) : flips[k] # flips[k + 1]

\* C38: with trackChanges on in every call, the ChangeEvents of each id in
\* history order begin with exactly one discovered event, no further
\* discovered event follows, and remediated and reactivated events strictly
\* alternate afterwards, for every payload, also one whose
\* deactivateMetadata is an empty mapping.
C38_LifeCycle ==
    AlwaysTracked =>
       \A id \in StoredHistoryIds : LifeCycle(TypesOf(conn.vulnerability_history, id))

---------------------------------------------------------------------------
(* The delays of a retried call. *)

\* base doubled a times
RECURSIVE Doubled(_, _)
Doubled(base, a) == IF a = 0 THEN base ELSE Doubled(base + base, a - 1)

\* C36: the delay slept after failed attempt a (counted from 0) is
\* min(baseDelay * 2^a, maxDelay) when jitter is off and lies between 0 and
\* that value when jitter is on; without jitter the delays never decrease
\* from one attempt to the next, and no delay exceeds maxDelay.
C36_Delays ==
    run.pc # "off" =>
       /\ \A i \in 1..Len(run.slept) :
             LET grown == Doubled(run.base_delay, i - 1)
                 capped == IF grown <= run.max_delay THEN grown ELSE run.max_delay
             IN /\ ~run.jitter => run.slept[i] = capped
                /\ run.jitter => (0 <= run.slept[i] /\ run.slept[i] <= capped)
                /\ run.slept[i] <= run.max_delay
       /\ ~run.jitter =>
             \A i \in 1..(Len(run.slept) - 1) : run.slept[i] <= run.slept[i + 1]

\* a run without jitter whose second delay was cut to maxDelay
C36_Witness ==
    /\ run.pc # "off"
    /\ ~run.jitter
    /\ Len(run.slept) = 2
    /\ run.slept[1] = run.base_delay
    /\ run.slept[2] = run.max_delay
    /\ run.base_delay * 4 > run.max_delay
    /\ run.slept[1] < run.slept[2]

---------------------------------------------------------------------------
(* The cursors of the page requests of a fetch. *)

\* the position of the last 2xx answer before position i of the trace, or 0
LastAnswerBefore(i) ==
    LET answers == {j \in 1..(i - 1) : client.trace[j].e = "200"}
    IN IF answers = {} THEN 0 ELSE CHOOSE j \in answers : \A k \in answers : k <= j

\* C35: the requests for the first page of a fetch (the first request and its
\* repetitions after a rate limit) carry no cursor; every request sent after
\* a successful response carries the endCursor of the immediately preceding
\* successful response, which had hasNextPage true; so no request for a
\* later page is sent without a cursor.
C35_CursorChain ==
    \A i \in 1..Len(client.trace) :
       client.trace[i].e = "GET" =>
          LET j == LastAnswerBefore(i)
          IN IF j = 0 THEN client.trace[i].cursor = NoCursor
             ELSE LET page_info ==
                          ResponseBody(client.api, CursorOf(client.trace[j].page)).pageInfo
                  IN /\ page_info.hasNextPage
                     /\ client.trace[i].cursor = page_info.endCursor
                     /\ client.trace[i].cursor # NoCursor
                     /\ client.trace[i].cursor = CursorOf(client.trace[j].page + 1)

\* three pages fetched, the first and the second each requested twice
C35_Witness ==
    /\ client.pc = "returned"
    /\ Len(client.api) = MaxPages
    /\ Len(OfKind({"GET"})) = MaxPages + 2
    /\ OfKind({"GET"})[1].cursor = NoCursor
    /\ OfKind({"GET"})[2].cursor = NoCursor
    /\ OfKind({"GET"})[3].cursor = CursorOf(2)
    /\ OfKind({"GET"})[4].cursor = CursorOf(2)
    /\ OfKind({"GET"})[5].cursor = CursorOf(3)

---------------------------------------------------------------------------
(* A sync whose pages hold up to MaxCallbackBatch records (its fetch thread *)
(* alone), and a sync whose pages hold up to Threshold records, as the API  *)
(* serves them for the default page_size.  The k-th record that arrives is  *)
(* the record with id r<k>.                                                 *)

MaxCallbackBatch == 5   \* records of one page in SpecBatches

Arrivals(arrived, n) ==
    [k \in 1..n |-> JObj(<<Item("id", JStr("r" \o ToString(arrived + k)))>>)]

\* pages of any size up to MaxCallbackBatch
NextBatches ==
    \/ \E n \in 0..MaxCallbackBatch, has_next_page \in BOOLEAN :
          FetchPage(Arrivals(Len(coord.vulnerabilities), n), has_next_page)
    \/ SubmitRemainder

SpecBatches == InitSync /\ [][NextBatches]_vars

\* pages of at most Threshold records, as the API serves them for the
\* default page_size
NextPagesWithinThreshold ==
    \/ \E n \in 0..Threshold, has_next_page \in BOOLEAN :
          FetchPage(Arrivals(Len(coord.vulnerabilities), n), has_next_page)
    \/ SubmitRemainder
    \/ \E j \in Threads :
          \/ RunJob(j)
          \/ StoreRecord(j)
          \/ StoreReturn(j)
    \/ JoinAndAggregate

SpecPagesWithinThreshold == InitSync /\ [][NextPagesWithinThreshold]_vars

RECURSIVE Flat(_)
Flat(batches) == IF batches = <<>> THEN <<>> ELSE Head(batches) \o Flat(Tail(batches))

Fetching == coord.pc \in {"fetch_active", "fetch_deactivated"}

\* C34: one invocation of the batch callback submits at most one job, also
\* when the buffer then holds two or more thresholds' worth of records; the
\* job is made of exactly threshold records from the front of the buffer,
\* oldest first, and the other records stay buffered in arrival order until
\* a later callback or the final drain, which submits them as one job.
C34_OneSlicePerCallback ==
    /\ [](coord.pc # "off" => Flat(coord.futures) \o
             (IF coord.pc \in {"fetch_active", "fetch_deactivated", "drain"}
              THEN coord.batch_buffer ELSE <<>>) = coord.vulnerabilities)
    /\ [][Fetching =>
            LET batch == SubSeq(coord'.vulnerabilities, Len(coord.vulnerabilities) + 1,
                                Len(coord'.vulnerabilities))
                extended == coord.batch_buffer \o batch
            IN /\ Len(coord'.futures) <= Len(coord.futures) + 1
               /\ SubSeq(coord'.futures, 1, Len(coord.futures)) = coord.futures
               /\ Len(coord'.futures) = Len(coord.futures) + 1 =>
                     /\ Len(extended) >= Threshold
                     /\ coord'.futures[Len(coord'.futures)] = SubSeq(extended, 1, Threshold)
                     /\ coord'.batch_buffer = SubSeq(extended, Threshold + 1, Len(extended))
               /\ Len(coord'.futures) = Len(coord.futures) =>
                     /\ batch # <<>> => Len(extended) < Threshold
                     /\ coord'.batch_buffer = extended]_vars

\* a callback left two thresholds' worth in the buffer after its one job
C34_Witness ==
    /\ Fetching
    /\ Len(coord.futures) = 2
    /\ Len(coord.batch_buffer) >= 2 * Threshold
    /\ coord.batch_buffer[1] = coord.vulnerabilities[2 * Threshold + 1]

\* C39: when every batch handed to the batch callback has at most threshold
\* records, the buffer holds fewer than threshold records whenever the
\* callback has returned, and no submitted job, the final drain job
\* included, has more than threshold records.
C39_BufferBelowThreshold ==
    coord.pc # "off" =>
       /\ Len(coord.batch_buffer) < Threshold
       /\ \A j \in 1..Len(coord.futures) :
             Len(coord.futures[j]) >= 1 /\ Len(coord.futures[j]) <= Threshold

\* a page of threshold records arrived on a buffer that was not empty, and
\* the rest went out with the drain
C39_Witness ==
    /\ coord.pc = "shutdown"
    /\ Len(coord.futures) = 3
    /\ Len(coord.futures[1]) = Threshold
    /\ Len(coord.futures[3]) = Threshold - 1
    /\ Len(coord.vulnerabilities) = 3 * Threshold - 1

---------------------------------------------------------------------------
(* APISyncWorker (src/gui/workers.py): run() in the worker thread and       *)
(* cancel() called from the GUI thread.  `run` is the frame of run():       *)
(* the signals it emitted so far, its store (db) and the flag.  The store   *)
(* call of run() is the call of thread 1.                                   *)


InitWorker ==
    /\ StoreIdle
    /\ run =
       [pc |-> "credentials", is_cancelled |-> FALSE, signals |-> <<>>, db |-> "none",
        credentials |-> "none", active_vulnerabilities |-> <<>>,
        deactivated_vulnerabilities |-> <<>>, more_pages |-> 0]

Progress(text) == [signal |-> "progress", text |-> text]

\* finally: if db: db.close()
Close(db) == IF db = "open" THEN "closed" ELSE db

\* if self._is_cancelled:
ObservesNever(w) == FALSE
Observes(w) == w.is_cancelled

\* if self._is_cancelled: return   (and the finally clause)
Return(w) == [w EXCEPT !.pc = "cancelled", !.db = Close(@)]

\* self.progress.emit("Loading credentials..."); self._load_credentials()
LoadCredentials(outcome) ==
    /\ run.pc = "credentials"
    /\ LET emitted == [run EXCEPT !.signals = Append(@, Progress("Loading credentials"))]
       IN run' = IF outcome = "raises" THEN [emitted EXCEPT !.pc = "except"]
                 ELSE [emitted EXCEPT !.pc = "check_credentials", !.credentials = outcome]
    /\ UNCHANGED <<conn, disk, write_lock, clock, call, read, coord, client>>

\* the check after the credentials; without credentials RuntimeError is
\* raised, else "Authenticating with Vanta API..." is emitted
AfterCredentials ==
    /\ run.pc = "check_credentials"
    /\ run' = IF Observes(run) THEN Return(run)
              ELSE IF run.credentials = "missing" THEN [run EXCEPT !.pc = "except"]
              ELSE [run EXCEPT !.pc = "authenticate",
                               !.signals = Append(@, Progress("Authenticating"))]
    /\ UNCHANGED <<conn, disk, write_lock, clock, call, read, coord, client>>

\* client = VantaAPIClient(...); client.authenticate()
WorkerAuthenticate(outcome) ==
    /\ run.pc = "authenticate"
    /\ run' = [run EXCEPT !.pc = IF outcome = "token" THEN "check_authenticate"
                                 ELSE "except"]
    /\ UNCHANGED <<conn, disk, write_lock, clock, call, read, coord, client>>

\* the check after authentication, then "Fetching active vulnerabilities..."
AfterAuthenticate ==
    /\ run.pc = "check_authenticate"
    /\ run' = IF Observes(run) THEN Return(run)
              ELSE [run EXCEPT !.pc = "fetch_active",
                               !.signals = Append(@, Progress("Fetching active"))]
    /\ UNCHANGED <<conn, disk, write_lock, clock, call, read, coord, client>>

\* one page of client.get_vulnerabilities(...), which returns after the
\* page without a next page and raises when a request fails
WorkerFetchPage(vulnerabilities_list, has_next_page) ==
    /\ run.pc \in {"fetch_active", "fetch_deactivated"}
    /\ has_next_page => run.more_pages < MaxMorePages
    /\ LET got == IF run.pc = "fetch_active"
                  THEN [run EXCEPT !.active_vulnerabilities = @ \o vulnerabilities_list]
                  ELSE [run EXCEPT !.deactivated_vulnerabilities = @ \o vulnerabilities_list]
       IN run' = IF has_next_page THEN [got EXCEPT !.more_pages = @ + 1]
                 ELSE [got EXCEPT !.pc = "check_" \o run.pc]
    /\ UNCHANGED <<conn, disk, write_lock, clock, call, read, coord, client>>

WorkerFetchFails ==
    /\ run.pc \in {"fetch_active", "fetch_deactivated"}
    /\ run' = [run EXCEPT !.pc = "except"]
    /\ UNCHANGED <<conn, disk, write_lock, clock, call, read, coord, client>>

\* the check after the fetch of the active vulnerabilities
AfterFetchActive ==
    /\ run.pc = "check_fetch_active"
    /\ run' = IF Observes(run) THEN Return(run)
              ELSE [run EXCEPT
                      !.pc = "fetch_deactivated",
                      !.signals = @ \o <<Progress("Fetched active"),
                                         Progress("Fetching remediated")>>]
    /\ UNCHANGED <<conn, disk, write_lock, clock, call, read, coord, client>>

\* the check after the fetch of the deactivated vulnerabilities, then
\* "Saving to database..." and db = VulnerabilityDatabase(self.database_path)
AfterFetchDeactivated ==
    /\ run.pc = "check_fetch_deactivated"
    /\ run' = IF Observes(run) THEN Return(run)
              ELSE [run EXCEPT
                      !.pc = "store",
                      !.db = "open",
                      !.signals = @ \o <<Progress("Fetched remediated"),
                                         Progress("Saving to database")>>]
    /\ UNCHANGED <<conn, disk, write_lock, clock, call, read, coord, client>>

\* sync_stats = db.store_vulnerabilities(all_vulnerabilities, track_changes=True)
WorkerStore ==
    /\ run.pc = "store"
    /\ call[1].pc = "idle"
    /\ StoreEnter(1,
                  run.active_vulnerabilities \o run.deactivated_vulnerabilities, TRUE)

\* the store call is over: it returned, or its exception reaches run()
WorkerStoreOver ==
    /\ run.pc = "store"
    /\ call[1].pc \in {"returned", "raised"}
    /\ run' = [run EXCEPT !.pc = IF call[1].pc = "returned"
                                 THEN "check_store" ELSE "except"]
    /\ UNCHANGED <<conn, disk, write_lock, clock, call, read, coord, client>>

\* the check after the store, then "Sync completed successfully",
\* finished.emit(all_vulnerabilities, summary) and the finally clause
AfterStore ==
    /\ run.pc = "check_store"
    /\ run' = IF Observes(run) THEN Return(run)
              ELSE [run EXCEPT
                      !.pc = "finished",
                      !.db = Close(@),
                      !.signals = @ \o <<Progress("Sync completed"),
                                         [signal |-> "finished",
                                          sync_stats |-> call[1].ret]>>]
    /\ UNCHANGED <<conn, disk, write_lock, clock, call, read, coord, client>>

\* except Exception as exc: if not self._is_cancelled: self.error.emit(...)
\* and the finally clause
Except ==
    /\ run.pc = "except"
    /\ run' = [run EXCEPT
                 !.pc = "failed",
                 !.db = Close(@),
                 !.signals = IF ~run.is_cancelled
                             THEN Append(@, [signal |-> "error"]) ELSE @]
    /\ UNCHANGED <<conn, disk, write_lock, clock, call, read, coord, client>>

\* cancel(), in the GUI thread, at any moment of run()
cancel ==
    /\ run.pc \notin {"cancelled", "finished", "failed"}
    /\ ~run.is_cancelled
    /\ run' = [run EXCEPT !.is_cancelled = TRUE]
    /\ UNCHANGED <<conn, disk, write_lock, clock, call, read, coord, client>>

NextWorker ==
    \/ \E outcome \in {"found", "missing", "raises"} : LoadCredentials(outcome)
    \/ AfterCredentials
    \/ \E outcome \in {"token", "fails"} : WorkerAuthenticate(outcome)
    \/ AfterAuthenticate
    \/ \E vulnerabilities_list \in SeqsUpTo({Payload("A1"), Payload("BstrDeact")}, PageSize), has_next_page \in BOOLEAN :
          WorkerFetchPage(vulnerabilities_list, has_next_page)
    \/ WorkerFetchFails
    \/ AfterFetchActive
    \/ AfterFetchDeactivated
    \/ WorkerStore
    \/ StoreRecord(1)
    \/ StoreReturn(1)
    \/ WorkerStoreOver
    \/ AfterStore
    \/ Except
    \/ cancel

SpecWorker == InitWorker /\ [][NextWorker]_vars

\* the frame of the store call of run()
WorkerCall == call[1]

\* the places of run() where the flag is read to decide on a return
PhaseBoundaries ==
    {"check_credentials", "check_authenticate", "check_fetch_active",
     "check_fetch_deactivated", "check_store"}

\* C37: once the worker observes its cancel flag at a phase boundary it
\* returns: it emits no further progress, finished or error signal and
\* closes its store if it has opened one, the work in flight (the fetch or
\* the store call that was running when the flag was set) having run to its
\* end; the flag is read only at the boundaries after the credentials, the
\* authentication, each fetch and the store, never inside a fetch or a
\* store call, which go on with the flag set.
C37_Cancelled ==
    run.pc = "cancelled" =>
       /\ run.is_cancelled
       /\ run.db # "open"
       /\ \A k \in 1..Len(run.signals) : run.signals[k].signal = "progress"
       /\ write_lock = NoThread
       /\ run.db = "closed" =>
             /\ WorkerCall.pc = "returned"
             /\ disk = conn
             /\ Len(disk.sync_history) = 1

C37_CancelBetweenPhases ==
    /\ []C37_Cancelled
    /\ [][(run.pc = "cancelled" => vars' = vars)
          /\ ((run.pc \in PhaseBoundaries /\ run.is_cancelled) =>
                 /\ run'.pc = "cancelled"
                 /\ run'.signals = run.signals
                 /\ run'.db = (IF run.db = "open" THEN "closed" ELSE run.db)
                 /\ UNCHANGED <<conn, disk, call>>)
          /\ ((run'.pc = "cancelled" /\ run.pc # "cancelled") =>
                 run.pc \in PhaseBoundaries /\ run.is_cancelled)
          /\ ((run.is_cancelled /\ run.pc = "store" /\ WorkerCall.pc = "loop") =>
                 /\ run' = run
                 /\ WorkerCall'.pc \in {"loop", "returned", "raised"}
                 /\ WorkerCall' # WorkerCall)
          /\ ((run.is_cancelled /\ run.pc \in {"fetch_active", "fetch_deactivated"}) =>
                 /\ run'.pc \in {run.pc, "check_" \o run.pc, "except"}
                 /\ run'.signals = run.signals)]_vars

\* run() returned at the boundary after a store call that stored two
\* records and committed; the last signal is the one before the store
C37_Witness ==
    /\ run.pc = "cancelled"
    /\ run.db = "closed"
    /\ Len(WorkerCall.log) = 2
    /\ Len(disk.sync_history) = 1
    /\ Len(run.signals) = 7
    /\ run.signals[7] = Progress("Saving to database")

---------------------------------------------------------------------------
(* The DataElement rows of one payload. *)

\* the nodes of a value: the values under its keys and at its indexes, at
\* any depth
RECURSIVE Nodes(_)
RECURSIVE NodesOfAll(_)
NodesOfAll(values) ==
    IF values = <<>> THEN 0 ELSE 1 + Nodes(Head(values)) + NodesOfAll(Tail(values))
Nodes(v) ==
    CASE v.t = "obj" -> NodesOfAll([i \in 1..Len(v.kv) |-> v.kv[i].v])
      [] v.t = "list" -> NodesOfAll(v.xs)
      [] OTHER -> 0

\* C40: flattening gives distinct paths to distinct nodes of a payload, so
\* the DataElement rows stored for a record are as many as its payload has
\* nodes, plus one for __root__, for every payload, also one with a key
\* that contains '.' or '[' or is '__root__'.
C40_OneRowPerNode ==
    run.pc = "returned" =>
       /\ \A i, j \in 1..Len(run.elements) :
             run.elements[i].path = run.elements[j].path => i = j
       /\ Cardinality(run.rows) = Nodes(run.data) + 1

====
